---- MODULE Spec2Model ----
(***************************************************************************)
(* A model of the ezctest execution and isolation engine (src/ezctest.h):  *)
(* the glob matcher and the name filter, the per-test lifecycle of         *)
(* ezctest_run_test, and the run loop of ezctest_run_all_tests_internal    *)
(* with its child processes.                                               *)
(*                                                                         *)
(* C strings are sequences of one-character strings; a NULL char pointer   *)
(* is NullStr; the terminating NUL read past the end of a string is NUL.   *)
(***************************************************************************)
EXTENDS Integers, Sequences, FiniteSets, TLC

(***************************************************************************)
(* Bounds of the model and constants of the program.                       *)
(***************************************************************************)
MaxPatLen == 3
MaxStrLen == 4
MaxFilterLen == 4

EZCTEST_MAX_NAME_LENGTH == 128

NUL == "NUL"
NullStr == <<"NULL">>

PatAlphabet == {"a", "b", "*", "?"}
StrAlphabet == {"a", "b", "?", "*"}
FilterAlphabet == {"a", "b", "*", "?", ":", "-", "."}

Strings(A, n) == UNION {[1..k -> A] : k \in 0..n}

Min(a, b) == IF a < b THEN a ELSE b

\* *p for a char pointer p at 1-based offset i into s
CharAt(s, i) == IF i >= 1 /\ i <= Len(s) THEN s[i] ELSE NUL

\* what snprintf / strncpy leave in a buffer of size bytes
Truncate(s, size) == SubSeq(s, 1, Min(Len(s), size - 1))

(***************************************************************************)
(* ezctest_wildcard_match: p, s index pattern and str; star_p = 0 is the   *)
(* NULL star_p.                                                            *)
(***************************************************************************)
RECURSIVE wildcard_tail(_, _)
wildcard_tail(pattern, p) ==
  IF CharAt(pattern, p) = "*" THEN wildcard_tail(pattern, p + 1)
  ELSE IF CharAt(pattern, p) = NUL THEN 1 ELSE 0

\* mutant: '?' is skipped without consuming a character of str
RECURSIVE wildcard_loop_qzero(_, _, _, _, _, _)
wildcard_loop_qzero(pattern, str, p, s, star_p, star_s) ==
  IF CharAt(str, s) = NUL THEN wildcard_tail(pattern, p)
  ELSE IF CharAt(pattern, p) = "*"
    THEN wildcard_loop_qzero(pattern, str, p + 1, s, p, s)
  ELSE IF CharAt(pattern, p) = "?"
    THEN wildcard_loop_qzero(pattern, str, p + 1, s, star_p, star_s)
  ELSE IF CharAt(pattern, p) = CharAt(str, s)
    THEN wildcard_loop_qzero(pattern, str, p + 1, s + 1, star_p, star_s)
  ELSE IF star_p # 0
    THEN wildcard_loop_qzero(pattern, str, star_p + 1, star_s + 1, star_p, star_s + 1)
  ELSE 0

RECURSIVE wildcard_loop(_, _, _, _, _, _)
wildcard_loop(pattern, str, p, s, star_p, star_s) ==
  IF CharAt(str, s) = NUL THEN wildcard_tail(pattern, p)
  ELSE IF CharAt(pattern, p) = "*"
    THEN wildcard_loop(pattern, str, p + 1, s, p, s)
  ELSE IF CharAt(pattern, p) = "?" \/ CharAt(pattern, p) = CharAt(str, s)
    THEN wildcard_loop(pattern, str, p + 1, s + 1, star_p, star_s)
  ELSE IF star_p # 0
    THEN wildcard_loop(pattern, str, star_p + 1, star_s + 1, star_p, star_s + 1)
  ELSE 0

ezctest_wildcard_match(pattern, str) == wildcard_loop(pattern, str, 1, 1, 0, 0)

(***************************************************************************)
(* ezctest_matches_filter: the strtok loop over filter_copy.  strtok skips *)
(* leading ':' and ends the token at the next ':' or at the end.           *)
(***************************************************************************)
RECURSIVE SkipDelims(_, _)
SkipDelims(s, pos) ==
  IF CharAt(s, pos) = ":" THEN SkipDelims(s, pos + 1) ELSE pos

RECURSIVE TokenEnd(_, _)
TokenEnd(s, pos) ==
  IF CharAt(s, pos) = ":" \/ CharAt(s, pos) = NUL THEN pos ELSE TokenEnd(s, pos + 1)

\* mutant: a matching negative token is passed over instead of rejecting
RECURSIVE strtok_loop_skipneg(_, _, _)
strtok_loop_skipneg(filter_copy, pos, full_name) ==
  LET start == SkipDelims(filter_copy, pos) IN
  IF start > Len(filter_copy) THEN 0
  ELSE LET stop == TokenEnd(filter_copy, start)
           token == SubSeq(filter_copy, start, stop - 1)
       IN IF token[1] = "-"
            THEN strtok_loop_skipneg(filter_copy, stop + 1, full_name)
            ELSE IF ezctest_wildcard_match(token, full_name) = 1
                   THEN 1
                   ELSE strtok_loop_skipneg(filter_copy, stop + 1, full_name)

RECURSIVE strtok_loop(_, _, _)
strtok_loop(filter_copy, pos, full_name) ==
  LET start == SkipDelims(filter_copy, pos) IN
  IF start > Len(filter_copy) THEN 0
  ELSE LET stop == TokenEnd(filter_copy, start)
           token == SubSeq(filter_copy, start, stop - 1)
       IN IF token[1] = "-"
            THEN IF ezctest_wildcard_match(Tail(token), full_name) = 1
                   THEN 0
                   ELSE strtok_loop(filter_copy, stop + 1, full_name)
            ELSE IF ezctest_wildcard_match(token, full_name) = 1
                   THEN 1
                   ELSE strtok_loop(filter_copy, stop + 1, full_name)

\* mutant: the empty-filter shortcut is missing
matches_filter_noempty(suite_name, test_name, filter) ==
  IF filter = NullStr THEN 1
  ELSE strtok_loop(Truncate(filter, EZCTEST_MAX_NAME_LENGTH * 4), 1,
                   Truncate(suite_name \o <<".">> \o test_name,
                            EZCTEST_MAX_NAME_LENGTH * 2))

ezctest_matches_filter(suite_name, test_name, filter) ==
  IF filter = NullStr \/ filter = <<>> THEN 1
  ELSE strtok_loop(Truncate(filter, EZCTEST_MAX_NAME_LENGTH * 4), 1,
                   Truncate(suite_name \o <<".">> \o test_name,
                            EZCTEST_MAX_NAME_LENGTH * 2))


(***************************************************************************)
(* State.                                                                  *)
(*                                                                         *)
(* Calls of the two pure functions (specifications SpecWild, SpecFilter).  *)
(***************************************************************************)
VARIABLES
  call,           \* the pending call: function name, arguments
  ret             \* <<v>> once the call has returned v, <<>> before

(***************************************************************************)
(* The test run (specification Spec).                                      *)
(***************************************************************************)
VARIABLES
  env,            \* the build and the host: platform, cpp, msvc, debugger
  budget,         \* the statements user code executes at most: body, other
  config,         \* g_ezctest_config of the process started by the user
  registration,   \* the tests in the order the constructors registered them
  fixtures,       \* g_ezctest_fixtures[0 .. g_ezctest_fixture_count-1]
  g,              \* per process: registry, result, current flags, defer stack,
                  \* longjmp context, worker index
  pc,             \* per process: position in the code
  loop,           \* locals of ezctest_run_all_tests_internal (parent)
  rt,             \* locals of the ezctest_run_test in progress
  child_status,   \* how the child ended, read by waitpid / GetExitCodeProcess
  out,            \* lines printed for the current test, both processes
  retcode,        \* <<v>> once ezctest_run_all_tests has returned v, <<>> before
  tr,             \* history of the test execution in progress
  hist            \* history of the run

pureVars == <<call, ret>>
runVars == <<env, budget, config, registration, fixtures, g, pc, loop, rt,
             child_status, out, retcode, tr, hist>>
vars == <<call, ret, env, budget, config, registration, fixtures, g, pc, loop, rt,
          child_status, out, retcode, tr, hist>>

(***************************************************************************)
(* The pure functions as calls.                                            *)
(***************************************************************************)
NoCall == [fn |-> "none"]

\* names and filters of the examples in the documentation
FooFilter == <<"F","o","o",".","*",":","-","F","o","o",".","S","l","o","w","*">>
StarSlowFilter == <<"*",":","-","*","S","l","o","w","*">>
SlowFirstFilter == <<"-","*","S","l","o","w","*",":","*">>
Foo == <<"F","o","o">>
Bar == <<"B","a","r">>
SlowOne == <<"S","l","o","w","O","n","e">>
FastOne == <<"F","a","s","t","O","n","e">>
Anything == <<"A","n","y","t","h","i","n","g">>

ExampleFilters == {FooFilter, StarSlowFilter, SlowFirstFilter}
ExampleNames == {<<Foo, SlowOne>>, <<Foo, FastOne>>, <<Bar, Anything>>}
SmallNames == {<<"a">>, <<"b">>} \X {<<"a">>, <<"b">>, <<"a", "b">>}


(***************************************************************************)
(* The test run: bounds, inputs and the initial state.                     *)
(***************************************************************************)
MaxStmts == 3        \* statements a test body executes at most
MaxRepeat == 2       \* largest --ezctest_repeat
MaxRuns == 2         \* runs started one after the other in a process
MaxFixtures == 2     \* EZCTEST_MAX_FIXTURES, scaled: entries of the fixture table
MaxTests == 2        \* EZCTEST_MAX_TESTS, scaled: entries of the registry
EZCTEST_MAX_DEFER_CALLBACKS == 2   \* scaled: entries of the cleanup stack

SIGSEGV == 11
SIGABRT == 6

\* a DWORD as its two 16-bit halves
DWord(hi, lo) == [hi |-> hi, lo |-> lo]
EXCEPTION_ACCESS_VIOLATION == DWord(49152, 5)     \* 0xC0000005
EXIT_ABORT == 3

Procs == {"parent", "child"}

\* the tests the constructors register, in this order
RegisteredTests ==
  << [suite_name |-> <<"A">>, test_name |-> <<"s">>, test_func |-> 1],
     [suite_name |-> <<"B">>, test_name |-> <<"t">>, test_func |-> 2] >>

\* suite A has SETUP and TEARDOWN, suite B has none
RegisteredFixtures ==
  << [suite_name |-> <<"A">>, setup |-> 1, teardown |-> 1] >>

RunFilters ==
  { NullStr, <<>>,
    <<"-", "A", ".", "*", ":", "*">>,
    <<"C", "*">> }

Envs ==
  { e \in [platform : {"linux", "windows"}, cpp : BOOLEAN, msvc : BOOLEAN,
           debugger : BOOLEAN] :
      e.msvc => e.platform = "windows" }

\* the builds of the run: gcc as C and as C++ on Linux, MinGW as C and MSVC as
\* C++ on Windows (a C build behaves as the C++ build of the same compiler
\* in which nothing throws)
RunEnvs ==
  { e \in Envs : (e.platform = "windows" => e.cpp = e.msvc) }

\* ezctest_parse_arguments leaves repeat >= 1; a worker or a listing reads the
\* filter only; repetition and shuffling are run without a filter
Configs ==
  { c \in [filter : RunFilters, repeat : 1..MaxRepeat, shuffle : {0, 1},
           list_tests : {0, 1}, no_exec : {-1, 0, 1}, worker : -1..2] :
      /\ (c.worker >= 0 \/ c.list_tests = 1) =>
            (c.repeat = 1 /\ c.shuffle = 0 /\ c.no_exec = -1)
      /\ (c.repeat > 1 \/ c.shuffle = 1) => c.filter = NullStr }

ZeroResult ==
  [total_tests |-> 0, passed_tests |-> 0, failed_tests |-> 0,
   total_assertions |-> 0, failed_assertions |-> 0]

\* ezctest_register, for each registered test
FreshRegistry ==
  [k \in 1..Len(RegisteredTests) |->
     [suite_name |-> RegisteredTests[k].suite_name,
      test_name |-> RegisteredTests[k].test_name,
      test_func |-> RegisteredTests[k].test_func,
      enabled |-> 1, failed |-> 0]]

\* the globals of a process when main is entered
FreshGlobals(worker_index) ==
  [registry |-> FreshRegistry,
   result |-> ZeroResult,
   current_failed |-> 0,
   current_assertion_failed |-> 0,
   defer_stack |-> <<>>,
   has_jumped |-> 0,
   worker_index |-> worker_index]

NoRunTest ==
  [test |-> 0, fixture |-> 0, exception_type |-> 0, is_worker |-> FALSE,
   fn |-> "none", steps |-> 0, defer_i |-> 0, ret_to |-> "none"]

NoLoop ==
  [repeat |-> 0, i |-> 0, test_count |-> 0, enabled_count |-> 0,
   use_process_isolation |-> 0, child_exit_code |-> 0]

NoTrace ==
  [phases |-> <<>>, pushed |-> <<>>, invoked |-> <<>>, fatal |-> FALSE,
   after_fatal |-> 0, asserted |-> FALSE, intercepted |-> FALSE,
   setups |-> 0, teardowns |-> 0, classified |-> "none", stale |-> FALSE,
   thrown |-> FALSE, expects |-> 0, after_expect |-> 0, refused |-> 0,
   setup_fatal |-> FALSE]

NoHist ==
  [dispatched |-> <<>>, paths |-> <<>>, children |-> <<>>, created |-> FALSE,
   abnormal |-> FALSE, isolation |-> FALSE, executed |-> <<>>,
   failures |-> {}, failed_any |-> FALSE, run |-> 1]

NoStatus == [kind |-> "none", code |-> DWord(0, 0), cause |-> "none"]

RunIdle ==
  /\ env = [platform |-> "linux", cpp |-> FALSE, msvc |-> FALSE, debugger |-> FALSE]
  /\ budget = [body |-> 0, other |-> 0]
  /\ config = [filter |-> NullStr, repeat |-> 1, shuffle |-> 0, list_tests |-> 0,
               no_exec |-> -1, worker |-> -1]
  /\ registration = RegisteredTests
  /\ fixtures = RegisteredFixtures
  /\ g = [p \in Procs |-> FreshGlobals(-1)]
  /\ pc = [parent |-> "idle", child |-> "none"]
  /\ loop = NoLoop
  /\ rt = NoRunTest
  /\ child_status = NoStatus
  /\ out = <<>>
  /\ retcode = <<>>
  /\ tr = NoTrace
  /\ hist = NoHist

PureIdle == call = NoCall /\ ret = <<>>

\* the state of a process started with configuration c in environment e
Started(e, c) ==
  /\ env = e
  /\ config = c
  /\ registration = RegisteredTests
  /\ fixtures = RegisteredFixtures
  /\ g = [p \in Procs |-> FreshGlobals(IF p = "parent" THEN config.worker ELSE -1)]
  /\ pc = [parent |-> "start", child |-> "none"]
  /\ loop = NoLoop
  /\ rt = NoRunTest
  /\ child_status = NoStatus
  /\ out = <<>>
  /\ retcode = <<>>
  /\ tr = NoTrace
  /\ hist = NoHist

\* every configuration, every build; test bodies of one statement
Init ==
  /\ PureIdle
  /\ budget = [body |-> 1, other |-> 0]
  /\ \E e \in RunEnvs, c \in Configs : Started(e, c)

\* isolation off, every build; SETUP, TEARDOWN and the callbacks execute a
\* statement, test bodies MaxStmts
InitTest ==
  /\ PureIdle
  /\ budget = [body |-> MaxStmts, other |-> 1]
  /\ \E e \in Envs :
       /\ ~e.debugger
       /\ Started(e, [filter |-> NullStr, repeat |-> 1, shuffle |-> 0,
                      list_tests |-> 0, no_exec |-> 1, worker |-> -1])

\* the process that is executing: the parent blocks while a child exists
Running == IF pc["child"] \notin {"none", "terminated"} THEN "child" ELSE "parent"

\* the filter a process matches names against: a Windows child gets the
\* parent's filter on its command line
FilterOf(p) == config.filter

\* a selection that takes every test
matches_any(t, filter) == TRUE

Matches(t, filter) ==
  t.enabled # 0 /\ ezctest_matches_filter(t.suite_name, t.test_name, filter) = 1


(***************************************************************************)
(* Helpers of the run.                                                     *)
(***************************************************************************)
Static == UNCHANGED <<call, ret, env, budget, config, registration, fixtures>>

\* the for loops of ezctest_run_all_tests_internal and ezctest_worker_mode
\* `continue` over tests that are disabled or do not match
RECURSIVE NextMatching(_, _, _)
NextMatching(reg, i, filter) ==
  IF i > Len(reg) THEN i
  ELSE IF Matches(reg[i], filter) THEN i
  ELSE NextMatching(reg, i + 1, filter)

EnabledCount(reg, filter) == Cardinality({i \in 1..Len(reg) : Matches(reg[i], filter)})

\* a search that stops at the first matching test, whatever the ordinal
worker_find_first(reg, filter, i, test_count, worker_index) ==
  LET n == NextMatching(reg, i, filter) IN
  IF n > Len(reg) THEN 0 ELSE n

\* ezctest_worker_mode's search: the index of the test run, 0 when none is
RECURSIVE worker_find(_, _, _, _, _)
worker_find(reg, filter, i, test_count, worker_index) ==
  LET n == NextMatching(reg, i, filter) IN
  IF n > Len(reg) THEN 0
  ELSE IF test_count = worker_index THEN n
  ELSE worker_find(reg, filter, n + 1, test_count + 1, worker_index)

\* ezctest_find_fixture: index of the first fixture of the suite, 0 for NULL
find_fixture(suite_name) ==
  LET hits == {k \in 1..Len(fixtures) : fixtures[k].suite_name = suite_name} IN
  IF hits = {} THEN 0 ELSE CHOOSE k \in hits : \A m \in hits : k <= m

Swap(reg, i, j) == [reg EXCEPT ![i] = reg[j], ![j] = reg[i]]

\* the Fisher-Yates loop, i from g_ezctest_count - 1 down to 1, over every
\* value rand() % (i + 1) may take
RECURSIVE Shuffles(_, _)
Shuffles(reg, i) ==
  IF i <= 1 THEN {reg}
  ELSE UNION {Shuffles(Swap(reg, i, j), i - 1) : j \in 1..i}

\* (int) of a DWORD
ToInt32(dw) == (IF dw.hi >= 32768 THEN dw.hi - 65536 ELSE dw.hi) * 65536 + dw.lo

\* a decision that ignores the explicit configuration
decide_isolation_auto(enabled_count, no_exec, under_debugger) ==
  IF enabled_count <= 1 \/ under_debugger THEN 0 ELSE 1

\* the isolation decision of ezctest_run_all_tests_internal
decide_isolation(enabled_count, no_exec, under_debugger) ==
  IF no_exec = -1
    THEN IF enabled_count <= 1 \/ under_debugger THEN 0 ELSE 1
    ELSE IF no_exec = 0 THEN 1 ELSE 0

\* the printed names of tests: one token per test
NamesOf(tests) == [k \in 1..Len(tests) |-> ToString(tests[k].test_func)]

\* a call of ezctest_run_test(&registry[test]) that returns to ret_to
CallRunTest(test, ret_to) == [NoRunTest EXCEPT !.test = test, !.ret_to = ret_to]

\* mutant: every test counts as failed
current_failed_always(p) == TRUE

CurrentFailed(p) ==
  g[p].current_failed # 0 \/ g[p].current_assertion_failed # 0

\* main returns code (the parent), or the child process exits with it
ProcessReturn(p, code) ==
  IF p = "parent"
    THEN /\ retcode' = <<code>>
         /\ pc' = [pc EXCEPT !["parent"] = "done"]
         /\ UNCHANGED child_status
    ELSE /\ child_status' = [kind |-> "exit", code |-> DWord(0, code), cause |-> "none"]
         /\ pc' = [pc EXCEPT !["child"] = "terminated"]
         /\ UNCHANGED retcode

\* the process is killed by an uncontained fault or by abort()
ProcessDies(p, cause) ==
  IF p = "parent"
    THEN /\ pc' = [pc EXCEPT !["parent"] = "crashed"]
         /\ UNCHANGED <<child_status, retcode>>
    ELSE /\ child_status' = [kind |-> "killed", code |-> DWord(0, 0), cause |-> cause]
         /\ pc' = [pc EXCEPT !["child"] = "terminated"]
         /\ UNCHANGED retcode

(***************************************************************************)
(* ezctest_run_all_tests and ezctest_run_all_tests_internal.               *)
(***************************************************************************)

\* ezctest_run_all_tests with a worker index: ezctest_worker_mode
EnterWorkerMode ==
  LET p == Running
      n == worker_find(g[p].registry, FilterOf(p), 1, 0, g[p].worker_index)
  IN /\ pc[p] = "start"
     /\ g[p].worker_index >= 0
     /\ IF n # 0
          THEN /\ rt' = CallRunTest(n, "worker_ret")
               /\ pc' = [pc EXCEPT ![p] = "run_test"]
               /\ UNCHANGED <<child_status, retcode>>
          ELSE /\ ProcessReturn(p, 1)
               /\ UNCHANGED rt
     /\ UNCHANGED <<g, loop, out, tr, hist>>
     /\ Static

\* ezctest_worker_mode after ezctest_run_test
WorkerReturn ==
  LET p == Running IN
  /\ pc[p] = "worker_ret"
  /\ ProcessReturn(p, IF CurrentFailed(p) THEN 1 ELSE 0)
  /\ UNCHANGED <<g, loop, rt, out, tr, hist>>
  /\ Static

\* ezctest_run_all_tests with --ezctest_list_tests: ezctest_list_tests
ListTests ==
  /\ pc["parent"] = "start"
  /\ g["parent"].worker_index < 0
  /\ config.list_tests = 1
  /\ out' = <<"LIST">> \o
            NamesOf(SelectSeq(g["parent"].registry,
                              LAMBDA t : Matches(t, config.filter)))
  /\ ProcessReturn("parent", 0)
  /\ UNCHANGED <<g, loop, rt, tr, hist>>
  /\ Static

\* ezctest_run_all_tests_internal up to the repeat loop
RunAllBegin ==
  LET n == EnabledCount(g["parent"].registry, config.filter)
      iso == decide_isolation(n, config.no_exec, env.debugger)
  IN /\ pc["parent"] = "start"
     /\ g["parent"].worker_index < 0
     /\ config.list_tests = 0
     /\ IF n = 0
          THEN /\ out' = <<"NO_TESTS">>
               /\ ProcessReturn("parent", 0)
               /\ UNCHANGED <<loop, hist>>
          ELSE /\ loop' = [NoLoop EXCEPT !.enabled_count = n,
                                         !.use_process_isolation = iso]
               /\ hist' = [hist EXCEPT !.isolation = (iso = 1)]
               /\ pc' = [pc EXCEPT !["parent"] = "pass_begin"]
               /\ UNCHANGED <<out, retcode, child_status>>
     /\ UNCHANGED <<g, rt, tr>>
     /\ Static

\* the head of one iteration of the repeat loop: failed flags, shuffle
PassBegin ==
  LET reg == g["parent"].registry
      cleared == [k \in 1..Len(reg) |-> [reg[k] EXCEPT !.failed = 0]]
  IN /\ pc["parent"] = "pass_begin"
     /\ loop.repeat < config.repeat
     /\ \E shuffled \in (IF config.shuffle # 0 /\ loop.repeat = 0
                           THEN Shuffles(cleared, Len(cleared))
                           ELSE {cleared}) :
          g' = [g EXCEPT !["parent"].registry = shuffled]
     /\ loop' = [loop EXCEPT !.i = 1, !.test_count = 0]
     /\ pc' = [pc EXCEPT !["parent"] = "loop"]
     /\ hist' = [hist EXCEPT !.paths = <<>>, !.children = <<>>,
                             !.executed = <<>>, !.failures = {}]
     /\ UNCHANGED <<rt, child_status, out, retcode, tr>>
     /\ Static

\* the test loop ran past the last test: next iteration
PassEnd ==
  /\ pc["parent"] = "loop"
  /\ NextMatching(g["parent"].registry, loop.i, config.filter)
       > Len(g["parent"].registry)
  /\ loop' = [loop EXCEPT !.repeat = @ + 1]
  /\ pc' = [pc EXCEPT !["parent"] = "pass_begin"]
  /\ UNCHANGED <<g, rt, child_status, out, retcode, tr, hist>>
  /\ Static

\* the next enabled matching test, isolation off: ezctest_run_test in-process
DispatchInProcess ==
  LET n == NextMatching(g["parent"].registry, loop.i, config.filter) IN
  /\ pc["parent"] = "loop"
  /\ n <= Len(g["parent"].registry)
  /\ loop.use_process_isolation = 0
  /\ loop' = [loop EXCEPT !.i = n]
  /\ g' = [g EXCEPT !["parent"].result.total_tests = @ + 1]
  /\ rt' = CallRunTest(n, "inproc_ret")
  /\ pc' = [pc EXCEPT !["parent"] = "run_test"]
  /\ out' = <<>>
  /\ hist' = [hist EXCEPT
                !.dispatched = Append(@, <<loop.repeat, g["parent"].registry[n].test_func>>),
                !.created = FALSE, !.abnormal = FALSE]
  /\ UNCHANGED <<child_status, retcode, tr>>
  /\ Static

\* the next enabled matching test, isolation on: the parent prints the start
\* line and calls ezctest_exec_child
DispatchIsolated ==
  LET n == NextMatching(g["parent"].registry, loop.i, config.filter) IN
  /\ pc["parent"] = "loop"
  /\ n <= Len(g["parent"].registry)
  /\ loop.use_process_isolation # 0
  /\ loop' = [loop EXCEPT !.i = n]
  /\ g' = [g EXCEPT !["parent"].result.total_tests = @ + 1]
  /\ pc' = [pc EXCEPT !["parent"] = "exec_child"]
  /\ out' = <<"RUN">>
  /\ hist' = [hist EXCEPT
                !.dispatched = Append(@, <<loop.repeat, g["parent"].registry[n].test_func>>),
                !.created = FALSE, !.abnormal = FALSE]
  /\ UNCHANGED <<rt, child_status, retcode, tr>>
  /\ Static


(***************************************************************************)
(* ezctest_exec_child.                                                     *)
(***************************************************************************)

\* fork() < 0, or GetModuleFileNameA / CreateProcessA fails: return -1
SpawnFails ==
  /\ pc["parent"] = "exec_child"
  /\ loop' = [loop EXCEPT !.child_exit_code = -1]
  /\ pc' = [pc EXCEPT !["parent"] = "classify"]
  /\ UNCHANGED <<g, rt, child_status, out, retcode, tr, hist>>
  /\ Static

\* fork() succeeds: the child is a copy of the parent, marks itself a
\* worker, zeroes its statistics and calls ezctest_run_test(test)
ForkChild ==
  /\ pc["parent"] = "exec_child"
  /\ env.platform = "linux"
  /\ g' = [g EXCEPT !["child"] =
             [g["parent"] EXCEPT !.worker_index = loop.test_count,
                                 !.result = ZeroResult]]
  /\ rt' = CallRunTest(loop.i, "fork_child_ret")
  /\ pc' = [parent |-> "wait_child", child |-> "run_test"]
  /\ hist' = [hist EXCEPT !.created = TRUE]
  /\ UNCHANGED <<loop, child_status, out, retcode, tr>>
  /\ Static

\* the forked child after ezctest_run_test: exit(exit_code)
ForkChildExit ==
  /\ pc["child"] = "fork_child_ret"
  /\ ProcessReturn("child", IF CurrentFailed("child") THEN 1 ELSE 0)
  /\ UNCHANGED <<g, loop, rt, out, tr, hist>>
  /\ Static

\* CreateProcessA succeeds: a new process of the same executable, started
\* with --ezctest_worker=test_index and the parent's filter
CreateProcessChild ==
  /\ pc["parent"] = "exec_child"
  /\ env.platform = "windows"
  /\ g' = [g EXCEPT !["child"] = FreshGlobals(loop.test_count)]
  /\ pc' = [parent |-> "wait_child", child |-> "start"]
  /\ hist' = [hist EXCEPT !.created = TRUE]
  /\ UNCHANGED <<loop, rt, child_status, out, retcode, tr>>
  /\ Static

\* what ezctest_exec_child returns for a child that ended: WEXITSTATUS or
\* 128 + WTERMSIG on Linux, (int) of the DWORD exit code on Windows
ExitCodeOf(platform, status) ==
  IF platform = "linux"
    THEN IF status.kind = "exit"
           THEN status.code.lo % 256
           ELSE 128 + (IF status.cause = "segv" THEN SIGSEGV ELSE SIGABRT)
    ELSE ToInt32(IF status.kind = "exit" THEN status.code
                 ELSE IF status.cause = "segv" THEN EXCEPTION_ACCESS_VIOLATION
                 ELSE DWord(0, EXIT_ABORT))

\* how a child ended: with exit status 0, with exit status 1, or otherwise
EndOf(status) ==
  IF status.kind = "exit" /\ status.code = DWord(0, 0) THEN "exit0"
  ELSE IF status.kind = "exit" /\ status.code = DWord(0, 1) THEN "exit1"
  ELSE "abnormal"

\* a wait that returns whether or not the child has ended
child_ended_any(child_pc) == TRUE

\* a wait that gives up on a child that does not end
child_ended_or_timeout(child_pc) == child_pc \in {"terminated", "hung"}

\* waitpid(pid, &status, 0) and WaitForSingleObject(hProcess, INFINITE)
\* block until the child has ended
child_ended(child_pc) == child_pc = "terminated"

\* waitpid / WaitForSingleObject return once the child has ended
WaitChild ==
  /\ pc["parent"] = "wait_child"
  /\ child_ended(pc["child"])
  /\ loop' = [loop EXCEPT !.child_exit_code = ExitCodeOf(env.platform, child_status)]
  /\ pc' = [parent |-> "classify",
            child |-> IF pc["child"] = "terminated" THEN "none" ELSE pc["child"]]
  /\ hist' = [hist EXCEPT !.abnormal = (EndOf(child_status) = "abnormal"),
                          !.children = Append(@, EndOf(child_status))]
  /\ g' = [g EXCEPT !["child"] = FreshGlobals(-1)]
  /\ child_status' = NoStatus
  /\ UNCHANGED <<rt, out, retcode, tr>>
  /\ Static

\* GetExitCodeProcess fails after the child has ended: return -1
GetExitCodeFails ==
  /\ pc["parent"] = "wait_child"
  /\ child_ended(pc["child"])
  /\ env.platform = "windows"
  /\ loop' = [loop EXCEPT !.child_exit_code = -1]
  /\ pc' = [parent |-> "classify",
            child |-> IF pc["child"] = "terminated" THEN "none" ELSE pc["child"]]
  /\ hist' = [hist EXCEPT !.children = Append(@, EndOf(child_status))]
  /\ g' = [g EXCEPT !["child"] = FreshGlobals(-1)]
  /\ child_status' = NoStatus
  /\ UNCHANGED <<rt, out, retcode, tr>>
  /\ Static

(***************************************************************************)
(* The four paths of the parent after ezctest_exec_child, and the returns  *)
(* of ezctest_run_test into the test loop.                                 *)
(***************************************************************************)
\* a parent that prints a result line of its own after a child exited 1
parent_prints_twice(path) ==
  IF path = "failure" THEN <<"FAILED">>
  ELSE IF path = "fallback" THEN <<"FALLBACK">>
  ELSE IF path = "abnormal" THEN <<"ABNORMAL", "FAILED">>
  ELSE <<>>

\* what the parent prints on each path: nothing after exit code 0 or 1
parent_prints(path) ==
  IF path = "fallback" THEN <<"FALLBACK">>
  ELSE IF path = "abnormal" THEN <<"ABNORMAL", "FAILED">>
  ELSE <<>>

NextIteration(l) ==
  [l EXCEPT !.i = @ + 1, !.test_count = @ + 1, !.child_exit_code = 0]

ChildPassed ==
  /\ pc["parent"] = "classify"
  /\ loop.child_exit_code = 0
  /\ g' = [g EXCEPT !["parent"].result.passed_tests = @ + 1]
  /\ loop' = NextIteration(loop)
  /\ pc' = [pc EXCEPT !["parent"] = "loop"]
  /\ hist' = [hist EXCEPT !.paths = Append(@, "success")]
  /\ out' = out \o parent_prints("success")
  /\ rt' = NoRunTest
  /\ tr' = NoTrace
  /\ UNCHANGED <<child_status, retcode>>
  /\ Static

ChildFailed ==
  /\ pc["parent"] = "classify"
  /\ loop.child_exit_code = 1
  /\ g' = [g EXCEPT !["parent"].result.failed_tests = @ + 1,
                    !["parent"].registry[loop.i].failed = 1]
  /\ loop' = NextIteration(loop)
  /\ pc' = [pc EXCEPT !["parent"] = "loop"]
  /\ hist' = [hist EXCEPT !.paths = Append(@, "failure")]
  /\ out' = out \o parent_prints("failure")
  /\ rt' = NoRunTest
  /\ tr' = NoTrace
  /\ UNCHANGED <<child_status, retcode>>
  /\ Static

\* child_exit_code < 0: run the test in-process
SpawnFallback ==
  /\ pc["parent"] = "classify"
  /\ loop.child_exit_code \notin {0, 1}
  /\ loop.child_exit_code < 0
  /\ out' = out \o parent_prints("fallback")
  /\ rt' = CallRunTest(loop.i, "fallback_ret")
  /\ pc' = [pc EXCEPT !["parent"] = "run_test"]
  /\ hist' = [hist EXCEPT !.paths = Append(@, "fallback")]
  /\ UNCHANGED <<g, loop, child_status, retcode, tr>>
  /\ Static

FallbackReturn ==
  /\ pc["parent"] = "fallback_ret"
  /\ g' = [g EXCEPT !["parent"].registry[loop.i].failed =
             IF CurrentFailed("parent") THEN 1 ELSE @]
  /\ loop' = NextIteration(loop)
  /\ pc' = [pc EXCEPT !["parent"] = "loop"]
  /\ rt' = NoRunTest
  /\ tr' = NoTrace
  /\ UNCHANGED <<child_status, out, retcode, hist>>
  /\ Static

\* any other exit code: the parent prints the failure itself
ChildAbnormal ==
  /\ pc["parent"] = "classify"
  /\ loop.child_exit_code \notin {0, 1}
  /\ ~(loop.child_exit_code < 0)
  /\ out' = out \o parent_prints("abnormal")
  /\ g' = [g EXCEPT !["parent"].result.failed_tests = @ + 1,
                    !["parent"].registry[loop.i].failed = 1]
  /\ loop' = NextIteration(loop)
  /\ pc' = [pc EXCEPT !["parent"] = "loop"]
  /\ hist' = [hist EXCEPT !.paths = Append(@, "abnormal")]
  /\ rt' = NoRunTest
  /\ tr' = NoTrace
  /\ UNCHANGED <<child_status, retcode>>
  /\ Static

\* isolation off: after ezctest_run_test
InprocReturn ==
  /\ pc["parent"] = "inproc_ret"
  /\ g' = [g EXCEPT !["parent"].registry[loop.i].failed =
             IF CurrentFailed("parent") THEN 1 ELSE @]
  /\ loop' = [loop EXCEPT !.i = @ + 1]
  /\ pc' = [pc EXCEPT !["parent"] = "loop"]
  /\ hist' = [hist EXCEPT !.paths = Append(@, "inproc")]
  /\ rt' = NoRunTest
  /\ tr' = NoTrace
  /\ UNCHANGED <<child_status, out, retcode>>
  /\ Static

\* after the last iteration: the summary and the exit code; the branch of
\* the summary for a run with isolation holds one printf, inside #if 0, and
\* prints nothing
Summary ==
  LET r == g["parent"].result
      reg == g["parent"].registry
      listed == SelectSeq(reg, LAMBDA t : t.failed # 0)
  IN /\ pc["parent"] = "pass_begin"
     /\ ~(loop.repeat < config.repeat)
     /\ out' = <<"TOTAL", "PASSED">>
               \o (IF r.failed_tests > 0
                     THEN <<"FAILED_LISTED_BELOW">> \o
                          NamesOf(listed)
                     ELSE <<>>)
               \o (IF loop.use_process_isolation # 0 THEN <<>> ELSE <<"ASSERTIONS">>)
               \o (IF r.total_tests = r.passed_tests THEN <<"ALL_PASSED">> ELSE <<>>)
     /\ ProcessReturn("parent", IF r.failed_tests = 0 THEN 0 ELSE 1)
     /\ UNCHANGED <<g, loop, rt, tr, hist>>
     /\ Static

\* the process calls ezctest_run_all_tests once more, after it returned:
\* ezctest_parse_arguments stores the filter of this call if it has one,
\* the registry and g_ezctest_result are those the last run left
RunAgain ==
  /\ pc["parent"] = "done"
  /\ env.platform # "stm32"
  /\ hist.run < MaxRuns
  /\ \E f \in RunFilters :
       config' = [config EXCEPT !.filter = IF f = NullStr THEN @ ELSE f]
  /\ pc' = [pc EXCEPT !["parent"] = "start"]
  /\ loop' = NoLoop
  /\ out' = <<>>
  /\ retcode' = <<>>
  /\ hist' = [NoHist EXCEPT !.run = hist.run + 1]
  /\ UNCHANGED <<call, ret, env, budget, registration, fixtures>>
  /\ UNCHANGED <<g, rt, child_status, tr>>

\* the commands "run" and "run <filter>" of the STM32 interactive loop:
\* memset of g_ezctest_result, the filter of the command, then
\* ezctest_run_all_tests_internal
Stm32Run ==
  /\ pc["parent"] = "done"
  /\ env.platform = "stm32"
  /\ hist.run < MaxRuns
  /\ \E f \in RunFilters : config' = [config EXCEPT !.filter = f]
  /\ g' = [g EXCEPT !["parent"].result = ZeroResult]
  /\ pc' = [pc EXCEPT !["parent"] = "start"]
  /\ loop' = NoLoop
  /\ out' = <<>>
  /\ retcode' = <<>>
  /\ hist' = [NoHist EXCEPT !.run = hist.run + 1]
  /\ UNCHANGED <<call, ret, env, budget, registration, fixtures>>
  /\ UNCHANGED <<rt, child_status, tr>>


(***************************************************************************)
(* ezctest_run_test and ezctest_run_test_with_exception_guard, executed by *)
(* the running process.  SETUP, the test body, the DEFER callbacks and     *)
(* TEARDOWN are user code: each executes statements chosen freely, at most *)
(* Budget of them, and returns.                                            *)
(***************************************************************************)
Budget(fn) == IF fn = "body" THEN budget.body ELSE budget.other

\* the test that process p is executing
Executing(p) == g[p].registry[rt.test].test_func

\* a clear that keeps the entries
defer_clear_keeps(stack) == stack

\* ezctest_defer_clear: count = 0
defer_clear(stack) == <<>>

\* ezctest_run_test up to the call of the guard
RunTestBegin ==
  LET p == Running
      t == g[p].registry[rt.test]
      worker == g[p].worker_index >= 0
  IN /\ pc[p] = "run_test"
     /\ g' = [g EXCEPT ![p].current_failed = 0,
                       ![p].current_assertion_failed = 0,
                       ![p].defer_stack = defer_clear(@)]
     /\ out' = IF worker THEN out ELSE Append(out, "RUN")
     /\ rt' = [rt EXCEPT !.is_worker = worker,
                         !.fixture = find_fixture(t.suite_name)]
     /\ tr' = NoTrace
     /\ hist' = [hist EXCEPT !.executed = Append(@, t.test_func)]
     /\ pc' = [pc EXCEPT ![p] = "guard"]
     /\ UNCHANGED <<loop, child_status, retcode>>
     /\ Static

\* fixture && fixture->setup, fixture && fixture->teardown (fixture 0 is NULL)
has_setup(fixture) == fixture # 0 /\ fixtures[fixture].setup # 0

\* mutant: TEARDOWN is never called
has_teardown_never(fixture) == FALSE

has_teardown(fixture) == fixture # 0 /\ fixtures[fixture].teardown # 0

\* the value ezctest_run_test_with_exception_guard stores in has_jumped
guard_has_jumped == 1

\* ezctest_run_test_with_exception_guard: arm the resumption point,
\* setjmp returns 0, call SETUP if the suite has one, else the body
GuardEnter ==
  LET p == Running
      first == IF has_setup(rt.fixture) THEN "setup" ELSE "body"
  IN /\ pc[p] = "guard"
     /\ g' = [g EXCEPT ![p].has_jumped = guard_has_jumped]
     /\ rt' = [rt EXCEPT !.fn = first, !.steps = 0]
     /\ tr' = [tr EXCEPT !.phases = Append(@, first),
                         !.setups = IF has_setup(rt.fixture) THEN @ + 1 ELSE @]
     /\ pc' = [pc EXCEPT ![p] = "user"]
     /\ UNCHANGED <<loop, child_status, out, retcode, hist>>
     /\ Static

\* the history after one more statement of the current function
Executed(t) ==
  [t EXCEPT !.after_fatal = IF rt.fn = "body" /\ t.fatal THEN @ + 1 ELSE @,
            !.after_expect = IF t.expects > 0 THEN @ + 1 ELSE @]

\* the current user function returns to the code that called it
Return(p, t) ==
  CASE rt.fn = "setup" ->
         /\ rt' = [rt EXCEPT !.fn = "body", !.steps = 0]
         /\ tr' = [t EXCEPT !.phases = Append(@, "body")]
         /\ pc' = pc
    [] rt.fn = "body" ->
         /\ rt' = rt
         /\ tr' = t
         /\ pc' = [pc EXCEPT ![p] = "guard_exit"]
    [] rt.fn = "cleanup" ->
         /\ rt' = [rt EXCEPT !.fn = "none", !.defer_i = @ - 1]
         /\ tr' = t
         /\ pc' = [pc EXCEPT ![p] = "defer_execute"]
    [] rt.fn = "teardown" ->
         /\ rt' = [rt EXCEPT !.fn = "none"]
         /\ tr' = t
         /\ pc' = [pc EXCEPT ![p] = "report"]

\* the condition is intercepted around the body: the guard returns 1
Intercept_unmarked(p, thrown) ==
  /\ g' = g
  /\ rt' = [rt EXCEPT !.exception_type = 1]
  /\ tr' = [Executed(tr) EXCEPT !.intercepted = TRUE, !.thrown = thrown]
  /\ pc' = [pc EXCEPT ![p] = "guard_exit"]
  /\ UNCHANGED <<child_status, retcode>>

Intercept(p, thrown) ==
  /\ g' = [g EXCEPT ![p].current_failed = 1]
  /\ rt' = [rt EXCEPT !.exception_type = 1]
  /\ tr' = [Executed(tr) EXCEPT !.intercepted = TRUE, !.thrown = thrown]
  /\ pc' = [pc EXCEPT ![p] = "guard_exit"]
  /\ UNCHANGED <<child_status, retcode>>

\* ezctest_assertion_passed
assertion_passed(gp) == [gp EXCEPT !.result.total_assertions = @ + 1]

\* a failure that is counted but leaves the test unmarked
assertion_failed_unmarked(gp, is_fatal) ==
  [gp EXCEPT !.result.total_assertions = @ + 1,
             !.result.failed_assertions = @ + 1,
             !.current_failed = IF is_fatal # 0 THEN 1 ELSE @]

\* ezctest_assertion_failed
assertion_failed(gp, is_fatal) ==
  [gp EXCEPT !.result.total_assertions = @ + 1,
             !.result.failed_assertions = @ + 1,
             !.current_assertion_failed = 1,
             !.current_failed = IF is_fatal # 0 THEN 1 ELSE @]

\* ezctest_defer_add: the stack after the call (unchanged when full)
\* a stack that takes every entry
defer_add_unbounded(stack, func) == Append(stack, func)

defer_add(stack, func) ==
  IF Len(stack) >= EZCTEST_MAX_DEFER_CALLBACKS THEN stack ELSE Append(stack, func)

\* mutant: ASSERT_* never takes the longjmp
assert_longjmps_never(has_jumped) == FALSE

\* the test of ASSERT_* after a failure: if (g_ezctest_longjmp_ctx.has_jumped)
assert_longjmps(has_jumped) == has_jumped # 0

\* an assertion that holds (EXPECT_* or ASSERT_*)
StmtPass ==
  LET p == Running IN
  /\ pc[p] = "user"
  /\ rt.fn = "body"
  /\ rt.steps < Budget(rt.fn)
  /\ g' = [g EXCEPT ![p] = assertion_passed(@)]
  /\ rt' = [rt EXCEPT !.steps = @ + 1]
  /\ tr' = Executed(tr)
  /\ UNCHANGED <<pc, loop, child_status, out, retcode, hist>>
  /\ Static

\* EXPECT_* fails: record and continue
StmtExpectFail ==
  LET p == Running IN
  /\ pc[p] = "user"
  /\ rt.steps < Budget(rt.fn)
  /\ g' = [g EXCEPT ![p] = assertion_failed(@, 0)]
  /\ rt' = [rt EXCEPT !.steps = @ + 1]
  /\ tr' = [Executed(tr) EXCEPT !.asserted = TRUE, !.expects = @ + 1]
  /\ UNCHANGED <<pc, loop, child_status, out, retcode, hist>>
  /\ Static

\* ASSERT_* fails, in the user function itself or in a helper it called:
\* record, longjmp if has_jumped, else return from the enclosing function
StmtAssertFail ==
  LET p == Running
      t == [Executed(tr) EXCEPT !.asserted = TRUE,
                                !.fatal = (@ \/ rt.fn = "body"),
                                !.setup_fatal = (@ \/ rt.fn = "setup")]
  IN /\ pc[p] = "user"
     /\ rt.steps < Budget(rt.fn)
     /\ g' = [g EXCEPT ![p] = assertion_failed(@, 1)]
     /\ \E in_helper \in BOOLEAN :
          IF assert_longjmps(g[p].has_jumped)
            THEN IF rt.fn \in {"setup", "body"}
                   THEN \* longjmp to the live resumption point: the guard returns 2
                        /\ rt' = [rt EXCEPT !.exception_type = 2]
                        /\ tr' = t
                        /\ pc' = [pc EXCEPT ![p] = "guard_exit"]
                        /\ UNCHANGED <<child_status, retcode>>
                   ELSE \* longjmp into a frame that has returned
                        /\ rt' = rt
                        /\ tr' = [t EXCEPT !.stale = TRUE]
                        /\ ProcessDies(p, "segv")
            ELSE IF in_helper
                   THEN /\ rt' = [rt EXCEPT !.steps = @ + 1]
                        /\ tr' = t
                        /\ UNCHANGED <<pc, child_status, retcode>>
                   ELSE /\ Return(p, t)
                        /\ UNCHANGED <<child_status, retcode>>
     /\ UNCHANGED <<loop, out, hist>>
     /\ Static

\* DEFER(func, data)
StmtDefer ==
  LET p == Running
      id == Len(tr.pushed) + 1
      full == Len(g[p].defer_stack) >= EZCTEST_MAX_DEFER_CALLBACKS
  IN /\ pc[p] = "user"
     /\ rt.steps < Budget(rt.fn)
     /\ g' = [g EXCEPT ![p].defer_stack = defer_add(@, id)]
     /\ rt' = [rt EXCEPT !.steps = @ + 1]
     /\ tr' = [Executed(tr) EXCEPT
                 !.pushed = IF full THEN @ ELSE Append(@, <<id, rt.fn>>),
                 !.refused = IF full THEN @ + 1 ELSE @]
     /\ UNCHANGED <<pc, loop, child_status, out, retcode, hist>>
     /\ Static

\* a C++ exception leaves the user function: caught around the body,
\* std::terminate anywhere else
StmtThrow ==
  LET p == Running IN
  /\ pc[p] = "user"
  /\ env.cpp
  /\ rt.steps < Budget(rt.fn)
  /\ IF rt.fn = "body"
       THEN Intercept(p, TRUE) /\ UNCHANGED hist
       ELSE /\ ProcessDies(p, "abort")
            /\ hist' = [hist EXCEPT !.failures = @ \cup {Executing(p)},
                                    !.failed_any = TRUE]
            /\ UNCHANGED <<g, rt, tr>>
  /\ UNCHANGED <<loop, out>>
  /\ Static

\* a hardware fault or abort(): SEH catches a fault of the body in an MSVC
\* build, anything else kills the process
StmtFault ==
  LET p == Running IN
  /\ pc[p] = "user"
  /\ rt.steps < Budget(rt.fn)
  /\ \E cause \in {"segv", "abort"} :
       IF rt.fn = "body" /\ env.msvc /\ cause = "segv"
         THEN Intercept(p, FALSE) /\ UNCHANGED hist
         ELSE /\ ProcessDies(p, cause)
              /\ hist' = [hist EXCEPT !.failures = @ \cup {Executing(p)},
                                    !.failed_any = TRUE]
              /\ UNCHANGED <<g, rt, tr>>
  /\ UNCHANGED <<loop, out>>
  /\ Static

\* the user function returns
StmtReturn ==
  LET p == Running IN
  /\ pc[p] = "user"
  /\ Return(p, tr)
  /\ UNCHANGED <<g, loop, child_status, out, retcode, hist>>
  /\ Static

\* back in ezctest_run_test: has_jumped = 0, ezctest_defer_execute starts
\* at the top of the stack
\* a resumption point left armed
guard_disarm_keeps(has_jumped) == has_jumped

\* g_ezctest_longjmp_ctx.has_jumped = 0, after the guard has returned
guard_disarm(has_jumped) == 0

GuardExit ==
  LET p == Running IN
  /\ pc[p] = "guard_exit"
  /\ g' = [g EXCEPT ![p].has_jumped = guard_disarm(@)]
  /\ rt' = [rt EXCEPT !.fn = "none", !.defer_i = Len(g[p].defer_stack)]
  /\ tr' = [tr EXCEPT !.phases = Append(@, "defer")]
  /\ pc' = [pc EXCEPT ![p] = "defer_execute"]
  /\ UNCHANGED <<loop, child_status, out, retcode, hist>>
  /\ Static

\* mutant: the loop stops above the bottom entry
defer_more_skip_bottom(i) == i >= 2

\* the loop condition of ezctest_defer_execute (i >= 0 for a 0-based i)
defer_more(i) == i >= 1

\* ezctest_defer_execute calls callbacks[i](data[i])
DeferInvoke ==
  LET p == Running IN
  /\ pc[p] = "defer_execute"
  /\ defer_more(rt.defer_i)
  /\ IF g[p].defer_stack[rt.defer_i] # 0
       THEN /\ rt' = [rt EXCEPT !.fn = "cleanup", !.steps = 0]
            /\ tr' = [tr EXCEPT !.invoked = Append(@, g[p].defer_stack[rt.defer_i])]
            /\ pc' = [pc EXCEPT ![p] = "user"]
       ELSE /\ rt' = [rt EXCEPT !.defer_i = @ - 1]
            /\ UNCHANGED <<tr, pc>>
  /\ UNCHANGED <<g, loop, child_status, out, retcode, hist>>
  /\ Static

\* ezctest_defer_execute is done: ezctest_defer_clear, then TEARDOWN if the
\* suite has one
DeferDone ==
  LET p == Running
  IN /\ pc[p] = "defer_execute"
     /\ ~defer_more(rt.defer_i)
     /\ g' = [g EXCEPT ![p].defer_stack = defer_clear(@)]
     /\ IF has_teardown(rt.fixture)
          THEN /\ rt' = [rt EXCEPT !.fn = "teardown", !.steps = 0]
               /\ tr' = [tr EXCEPT !.phases = Append(@, "teardown"),
                                   !.teardowns = @ + 1]
               /\ pc' = [pc EXCEPT ![p] = "user"]
          ELSE /\ pc' = [pc EXCEPT ![p] = "report"]
               /\ UNCHANGED <<rt, tr>>
     /\ UNCHANGED <<loop, child_status, out, retcode, hist>>
     /\ Static

\* mutant: the fatal flag alone decides
report_failed_fatal_only(gp) == gp.current_failed # 0

\* the classification at the end of ezctest_run_test
report_failed(gp) == gp.current_failed # 0 \/ gp.current_assertion_failed # 0

\* the end of ezctest_run_test: the result line and the pass/fail counters
\* a count of the failed tests alone
tally_failed_only(result, failed) ==
  [result EXCEPT !.failed_tests = IF failed THEN @ + 1 ELSE @]

\* failed_tests++ or passed_tests++
tally(result, failed) ==
  [result EXCEPT !.failed_tests = IF failed THEN @ + 1 ELSE @,
                 !.passed_tests = IF failed THEN @ ELSE @ + 1]

Report ==
  LET p == Running
      failed == report_failed(g[p])
  IN /\ pc[p] = "report"
     /\ out' = Append(out, IF failed THEN "FAILED" ELSE "OK")
     /\ g' = [g EXCEPT ![p].result = tally(@, failed)]
     /\ tr' = [tr EXCEPT !.phases = Append(@, "report"),
                         !.classified = IF failed THEN "failed" ELSE "passed"]
     /\ hist' = [hist EXCEPT !.failures = IF failed THEN @ \cup {Executing(p)} ELSE @,
                             !.failed_any = @ \/ failed]
     /\ pc' = [pc EXCEPT ![p] = rt.ret_to]
     /\ UNCHANGED <<rt, loop, child_status, retcode>>
     /\ Static

(***************************************************************************)
(* The specification of the run.                                           *)
(***************************************************************************)
Next ==
  \/ EnterWorkerMode \/ WorkerReturn \/ ListTests \/ RunAllBegin
  \/ PassBegin \/ PassEnd \/ DispatchInProcess \/ DispatchIsolated
  \/ SpawnFails \/ ForkChild \/ ForkChildExit \/ CreateProcessChild
  \/ WaitChild \/ GetExitCodeFails
  \/ ChildPassed \/ ChildFailed \/ SpawnFallback \/ FallbackReturn
  \/ ChildAbnormal \/ InprocReturn \/ Summary
  \/ RunTestBegin \/ GuardEnter
  \/ StmtPass \/ StmtExpectFail \/ StmtAssertFail \/ StmtDefer
  \/ StmtThrow \/ StmtFault \/ StmtReturn
  \/ GuardExit \/ DeferInvoke \/ DeferDone \/ Report

Spec == Init /\ [][Next]_vars

\* the lifecycle of tests run in-process
NextTest ==
  \/ RunAllBegin \/ PassBegin \/ PassEnd \/ DispatchInProcess
  \/ InprocReturn \/ Summary
  \/ RunTestBegin \/ GuardEnter
  \/ StmtPass \/ StmtExpectFail \/ StmtAssertFail \/ StmtDefer
  \/ StmtThrow \/ StmtFault \/ StmtReturn
  \/ GuardExit \/ DeferInvoke \/ DeferDone \/ Report

SpecTest == InitTest /\ [][NextTest]_vars

\* a build for an STM32 target: C, no process isolation, the interactive loop
Stm32Env == [platform |-> "stm32", cpp |-> FALSE, msvc |-> FALSE, debugger |-> FALSE]

\* isolation off, test bodies of one statement; gcc as C and as C++ on Linux,
\* and the STM32 build
InitRerun ==
  /\ PureIdle
  /\ budget = [body |-> 1, other |-> 0]
  /\ \E e \in {x \in Envs : x.platform = "linux" /\ ~x.debugger} \cup {Stm32Env},
        f \in RunFilters, n \in 1..MaxRepeat :
       Started(e, [filter |-> f, repeat |-> n, shuffle |-> 0,
                   list_tests |-> 0, no_exec |-> 1, worker |-> -1])

\* runs in-process, one after the other
NextRerun == NextTest \/ RunAgain \/ Stm32Run

SpecRerun == InitRerun /\ [][NextRerun]_vars

(***************************************************************************)
(* Registration: ezctest_register_setup and ezctest_register_teardown,     *)
(* called by the constructors of the test program, in any order.           *)
(***************************************************************************)
FixtureSuites == {<<"A">>, <<"B">>, <<"C">>}

FixtureFuncs == {1, 2}

\* a search that finds no entry
register_lookup_none(fx, suite_name) == 0

\* the loop over g_ezctest_fixtures with strcmp: the index of the first
\* entry of the suite, 0 when the loop ends without one
register_lookup(fx, suite_name) ==
  LET hits == {k \in 1..Len(fx) : fx[k].suite_name = suite_name} IN
  IF hits = {} THEN 0 ELSE CHOOSE k \in hits : \A m \in hits : k <= m

\* the successful bindings so far: the function last bound, 0 for none
NoBindings ==
  [setup |-> [s \in FixtureSuites |-> 0], teardown |-> [s \in FixtureSuites |-> 0]]

InitReg ==
  /\ PureIdle
  /\ env = [platform |-> "linux", cpp |-> FALSE, msvc |-> FALSE, debugger |-> FALSE]
  /\ budget = [body |-> 0, other |-> 0]
  /\ config = [filter |-> NullStr, repeat |-> 1, shuffle |-> 0, list_tests |-> 0,
               no_exec |-> -1, worker |-> -1]
  /\ registration = <<>>
  /\ fixtures = <<>>
  /\ g = [p \in Procs |-> FreshGlobals(-1)]
  /\ pc = [parent |-> "constructors", child |-> "none"]
  /\ loop = NoLoop
  /\ rt = NoRunTest
  /\ child_status = NoStatus
  /\ out = <<>>
  /\ retcode = <<>>
  /\ tr = NoTrace
  /\ hist = NoBindings

\* ezctest_register_setup(suite_name, setup)
RegisterSetup ==
  /\ pc["parent"] = "constructors"
  /\ \E suite_name \in FixtureSuites, setup \in FixtureFuncs :
       LET i == register_lookup(fixtures, suite_name) IN
       /\ call' = [fn |-> "ezctest_register_setup", suite_name |-> suite_name,
                   func |-> setup]
       /\ IF i # 0
            THEN /\ fixtures' = [fixtures EXCEPT ![i].setup = setup]
                 /\ ret' = <<1>>
                 /\ hist' = [hist EXCEPT !.setup[suite_name] = setup]
                 /\ out' = <<>>
            ELSE IF Len(fixtures) >= MaxFixtures
            THEN /\ ret' = <<0>>
                 /\ out' = <<"ERROR">>
                 /\ UNCHANGED <<fixtures, hist>>
            ELSE /\ fixtures' = Append(fixtures, [suite_name |-> suite_name,
                                                  setup |-> setup, teardown |-> 0])
                 /\ ret' = <<1>>
                 /\ hist' = [hist EXCEPT !.setup[suite_name] = setup]
                 /\ out' = <<>>
  /\ UNCHANGED <<env, budget, config, registration, g, pc, loop, rt, child_status,
                 retcode, tr>>

\* ezctest_register_teardown(suite_name, teardown)
RegisterTeardown ==
  /\ pc["parent"] = "constructors"
  /\ \E suite_name \in FixtureSuites, teardown \in FixtureFuncs :
       LET i == register_lookup(fixtures, suite_name) IN
       /\ call' = [fn |-> "ezctest_register_teardown", suite_name |-> suite_name,
                   func |-> teardown]
       /\ IF i # 0
            THEN /\ fixtures' = [fixtures EXCEPT ![i].teardown = teardown]
                 /\ ret' = <<1>>
                 /\ hist' = [hist EXCEPT !.teardown[suite_name] = teardown]
                 /\ out' = <<>>
            ELSE IF Len(fixtures) >= MaxFixtures
            THEN /\ ret' = <<0>>
                 /\ out' = <<"ERROR">>
                 /\ UNCHANGED <<fixtures, hist>>
            ELSE /\ fixtures' = Append(fixtures, [suite_name |-> suite_name,
                                                  setup |-> 0, teardown |-> teardown])
                 /\ ret' = <<1>>
                 /\ hist' = [hist EXCEPT !.teardown[suite_name] = teardown]
                 /\ out' = <<>>
  /\ UNCHANGED <<env, budget, config, registration, g, pc, loop, rt, child_status,
                 retcode, tr>>

NextReg == RegisterSetup \/ RegisterTeardown

SpecReg == InitReg /\ [][NextReg]_vars

(***************************************************************************)
(* Registration of tests: ezctest_register, called by the constructor of   *)
(* every TEST before main is entered, and the run of the registered tests.  *)
(***************************************************************************)
\* the test whose body is function f: A.s, B.t, and tests of suite C
TestOf(f) ==
  IF f <= Len(RegisteredTests)
    THEN RegisteredTests[f]
    ELSE [suite_name |-> <<"C">>, test_name |-> <<"u">>, test_func |-> f]

\* one TEST more than the registry holds
DefinedTests == {TestOf(f) : f \in 1..(MaxTests + 1)}

\* a registry that is never full
register_full_never(count) == FALSE

\* g_ezctest_count >= EZCTEST_MAX_TESTS
register_full(count) == count >= MaxTests

\* the constructors of SETUP and TEARDOWN have run, those of the tests have
\* not; isolation off, test bodies of one statement, gcc as C and as C++
InitCap ==
  /\ PureIdle
  /\ budget = [body |-> 1, other |-> 0]
  /\ \E cpp \in BOOLEAN :
       env = [platform |-> "linux", cpp |-> cpp, msvc |-> FALSE, debugger |-> FALSE]
  /\ config = [filter |-> NullStr, repeat |-> 1, shuffle |-> 0, list_tests |-> 0,
               no_exec |-> 1, worker |-> -1]
  /\ registration = <<>>
  /\ fixtures = RegisteredFixtures
  /\ g = [p \in Procs |-> [FreshGlobals(-1) EXCEPT !.registry = <<>>]]
  /\ pc = [parent |-> "constructors", child |-> "none"]
  /\ loop = NoLoop
  /\ rt = NoRunTest
  /\ child_status = NoStatus
  /\ out = <<>>
  /\ retcode = <<>>
  /\ tr = NoTrace
  /\ hist = NoHist

\* ezctest_register(suite_name, test_name, test_func), once for each TEST
Register ==
  /\ pc["parent"] = "constructors"
  /\ \E t \in DefinedTests :
       LET reg == g["parent"].registry IN
       /\ \A k \in 1..Len(registration) : registration[k].test_func # t.test_func
       /\ call' = [fn |-> "ezctest_register", suite_name |-> t.suite_name,
                   test_name |-> t.test_name, test_func |-> t.test_func]
       /\ IF register_full(Len(reg))
            THEN /\ out' = <<"ERROR">>
                 /\ ret' = <<0>>
                 /\ UNCHANGED <<g, registration>>
            ELSE /\ g' = [g EXCEPT !["parent"].registry =
                            Append(reg, [suite_name |-> t.suite_name,
                                         test_name |-> t.test_name,
                                         test_func |-> t.test_func,
                                         enabled |-> 1, failed |-> 0])]
                 /\ registration' = Append(registration, t)
                 /\ ret' = <<1>>
                 /\ out' = <<>>
  /\ UNCHANGED <<env, budget, config, fixtures, pc, loop, rt, child_status,
                 retcode, tr, hist>>

\* main is entered once the constructors have run
EnterMain ==
  /\ pc["parent"] = "constructors"
  /\ pc' = [pc EXCEPT !["parent"] = "start"]
  /\ out' = <<>>
  /\ UNCHANGED <<g, loop, rt, child_status, retcode, tr, hist>>
  /\ Static

NextCap == Register \/ EnterMain \/ NextTest

SpecCap == InitCap /\ [][NextCap]_vars

\* a user function (SETUP, a test body, a callback, TEARDOWN) that never
\* returns: the process executing it stays in it
StmtHang ==
  LET p == Running IN
  /\ pc[p] = "user"
  /\ rt.steps < Budget(rt.fn)
  /\ pc' = [pc EXCEPT ![p] = "hung"]
  /\ UNCHANGED <<g, loop, rt, child_status, out, retcode, tr, hist>>
  /\ Static

\* every configuration without filter and shuffle, the four builds, no
\* debugger; test bodies of one statement
InitLive ==
  /\ PureIdle
  /\ budget = [body |-> 1, other |-> 0]
  /\ \E e \in RunEnvs, c \in Configs :
       /\ ~e.debugger
       /\ c.filter = NullStr
       /\ c.shuffle = 0
       /\ Started(e, c)

\* the run, with user functions that may not return
NextLive == Next \/ StmtHang

\* a process that can take a step takes one: the operating system schedules
\* parent and child, and a wait returns once the child has ended
SpecLive == InitLive /\ [][NextLive]_vars /\ WF_vars(Next)


(***************************************************************************)
(* The two pure functions, each called once on arguments drawn from the    *)
(* bounded sets.                                                           *)
(***************************************************************************)
WildCalls ==
  [fn : {"ezctest_wildcard_match"},
   pattern : Strings(PatAlphabet, MaxPatLen),
   str : Strings(StrAlphabet, MaxStrLen)]

FilterCalls ==
  { [fn |-> "ezctest_matches_filter", suite_name |-> n[1], test_name |-> n[2],
     filter |-> f] :
      n \in SmallNames \cup ExampleNames,
      f \in Strings(FilterAlphabet, MaxFilterLen) \cup {NullStr} \cup ExampleFilters }

InitWild == RunIdle /\ call \in WildCalls /\ ret = <<>>

InitFilter == RunIdle /\ call \in FilterCalls /\ ret = <<>>

CallWildcardMatch ==
  /\ call.fn = "ezctest_wildcard_match"
  /\ ret = <<>>
  /\ ret' = <<ezctest_wildcard_match(call.pattern, call.str)>>
  /\ UNCHANGED <<call, runVars>>

CallMatchesFilter ==
  /\ call.fn = "ezctest_matches_filter"
  /\ ret = <<>>
  /\ ret' = <<ezctest_matches_filter(call.suite_name, call.test_name, call.filter)>>
  /\ UNCHANGED <<call, runVars>>

SpecWild == InitWild /\ [][CallWildcardMatch]_vars

SpecFilter == InitFilter /\ [][CallMatchesFilter]_vars


(***************************************************************************)
(* Reference definitions the properties compare the code with.             *)
(***************************************************************************)

\* glob matching, declaratively: '*' stands for any run of characters, '?'
\* for exactly one, any other character for itself
RECURSIVE GlobRef(_, _)
GlobRef(pattern, str) ==
  IF pattern = <<>> THEN str = <<>>
  ELSE IF Head(pattern) = "*"
    THEN \E k \in 0..Len(str) : GlobRef(Tail(pattern), SubSeq(str, k + 1, Len(str)))
  ELSE /\ str # <<>>
       /\ (Head(pattern) = "?" \/ Head(pattern) = Head(str))
       /\ GlobRef(Tail(pattern), Tail(str))

\* the ':'-separated tokens of a filter, left to right
RECURSIVE SplitRef(_)
SplitRef(filter) ==
  LET colons == {i \in 1..Len(filter) : filter[i] = ":"} IN
  IF colons = {} THEN <<filter>>
  ELSE LET k == CHOOSE i \in colons : \A j \in colons : i <= j
       IN <<SubSeq(filter, 1, k - 1)>> \o SplitRef(SubSeq(filter, k + 1, Len(filter)))

IsNegative(token) == token # <<>> /\ token[1] = "-"

PatternOf(token) == IF IsNegative(token) THEN Tail(token) ELSE token

FullName(suite_name, test_name) == suite_name \o <<".">> \o test_name

\* the decision of the first token whose pattern matches, 0 when none does
FirstMatchRef(filter, name) ==
  LET tokens == SplitRef(filter)
      hits == {i \in 1..Len(tokens) : GlobRef(PatternOf(tokens[i]), name)}
  IN IF hits = {} THEN 0
     ELSE LET first == CHOOSE i \in hits : \A j \in hits : i <= j
          IN IF IsNegative(tokens[first]) THEN 0 ELSE 1

\* some negative token of the filter matches the name
ExcludedRef(filter, name) ==
  LET tokens == SplitRef(filter) IN
  \E i \in 1..Len(tokens) :
    IsNegative(tokens[i]) /\ GlobRef(Tail(tokens[i]), name)

FilterReturned ==
  call.fn = "ezctest_matches_filter" /\ ret # <<>>

CallName == FullName(call.suite_name, call.test_name)

(***************************************************************************)
(* Properties of the filter and of the glob matcher.                       *)
(***************************************************************************)

\* C1: with the filter "Foo.*:-Foo.Slow*" ezctest_matches_filter rejects
\* Foo.SlowOne, accepts Foo.FastOne and rejects Bar.Anything, and a negative
\* token that matches the name rejects it wherever it stands in the filter,
\* also after a positive token that matches.
C1_ExclusionAlwaysRejects ==
  (FilterReturned /\ call.filter \notin {NullStr, <<>>}) =>
    /\ (call.filter = FooFilter /\ CallName = FullName(Foo, SlowOne) => ret[1] = 0)
    /\ (call.filter = FooFilter /\ CallName = FullName(Foo, FastOne) => ret[1] = 1)
    /\ (call.filter = FooFilter /\ CallName = FullName(Bar, Anything) => ret[1] = 0)
    /\ (ExcludedRef(call.filter, CallName) => ret[1] = 0)

\* the state C1 fails in: Foo.SlowOne is accepted under "Foo.*:-Foo.Slow*"
C1_SlowOneAccepted ==
  /\ FilterReturned
  /\ call.filter = FooFilter
  /\ CallName = FullName(Foo, SlowOne)
  /\ ret[1] = 1

C3_WildcardAgreesWithGlob ==
  (call.fn = "ezctest_wildcard_match" /\ ret # <<>>) =>
    ret[1] = (IF GlobRef(call.pattern, call.str) THEN 1 ELSE 0)

\* a match that needs the matcher to go back to the last '*': "*?a" on "aba"
C3_MatchAfterBacktracking ==
  /\ call.fn = "ezctest_wildcard_match"
  /\ call.pattern = <<"*", "?", "a">>
  /\ call.str = <<"a", "b", "a">>
  /\ ret = <<1>>

\* C4: with an empty or absent filter ezctest_matches_filter returns 1 for
\* every suite and test name, so the test loop selects every enabled test.
C4_EmptyFilterMatchesAll ==
  (FilterReturned /\ call.filter \in {NullStr, <<>>}) =>
    LET reg == << [suite_name |-> call.suite_name, test_name |-> call.test_name,
                   test_func |-> 1, enabled |-> 1, failed |-> 0] >>
    IN /\ ret[1] = 1
       /\ NextMatching(reg, 1, call.filter) = 1
       /\ EnabledCount(reg, call.filter) = 1

\* the empty string as filter, answered with 1
C4_EmptyFilterAnswered ==
  /\ FilterReturned
  /\ call.filter = <<>>
  /\ ret = <<1>>


(***************************************************************************)
(* Properties of the lifecycle of one test, ezctest_run_test.              *)
(***************************************************************************)
Last(s) == s[Len(s)]

Reverse(s) == [i \in 1..Len(s) |-> s[Len(s) + 1 - i]]

Contains(s, x) == \E i \in 1..Len(s) : s[i] = x

IsPrefix(s, t) == Len(s) <= Len(t) /\ s = SubSeq(t, 1, Len(s))

\* ezctest_run_test has printed the result line of the test in progress
Reported == tr.classified # "none"

\* the cleanups the body pushed, in the order it pushed them, and the
\* cleanups among them that were invoked, in the order of the invocations
BodyCleanups ==
  LET by_body == SelectSeq(tr.pushed, LAMBDA e : e[2] = "body")
  IN [i \in 1..Len(by_body) |-> by_body[i][1]]

InvokedBodyCleanups ==
  SelectSeq(tr.invoked, LAMBDA c : Contains(BodyCleanups, c))

\* the suite of the test in progress registered a SETUP, a TEARDOWN
SuiteHasSetup ==
  \E k \in 1..Len(fixtures) :
    /\ fixtures[k].suite_name = g["parent"].registry[rt.test].suite_name
    /\ fixtures[k].setup # 0

SuiteHasTeardown ==
  \E k \in 1..Len(fixtures) :
    /\ fixtures[k].suite_name = g["parent"].registry[rt.test].suite_name
    /\ fixtures[k].teardown # 0

\* C5: the cleanups c1..cn the body pushed are invoked in the order cn..c1,
\* each once, none before the body has ended, and all of them before
\* TEARDOWN is called and the result is reported, however the body ended.
C5_CleanupsLifoBeforeTeardown ==
  /\ IsPrefix(InvokedBodyCleanups, Reverse(BodyCleanups))
  /\ (tr.invoked # <<>> => Contains(tr.phases, "defer"))
  /\ (Contains(tr.phases, "teardown") \/ pc["parent"] = "report" \/ Reported)
       => InvokedBodyCleanups = Reverse(BodyCleanups)

\* two cleanups of a body that a fatal assertion aborted, invoked last first
C5_TwoCleanupsAfterFatal ==
  /\ Reported
  /\ tr.fatal
  /\ Len(BodyCleanups) = 2
  /\ InvokedBodyCleanups = <<BodyCleanups[2], BodyCleanups[1]>>
  /\ Last(tr.invoked) = BodyCleanups[1]

\* C6: after ASSERT_* fails in a test body no further statement of the
\* body executes, the process goes on to the end of the guard instead of
\* terminating, and TEARDOWN of the suite is called once.
C6_FatalAssertionAbortsBodyOnly ==
  tr.fatal =>
    /\ tr.after_fatal = 0
    /\ (Last(tr.phases) = "body" => pc["parent"] = "guard_exit")
    /\ tr.teardowns <= 1
    /\ (Reported => tr.teardowns = (IF SuiteHasTeardown THEN 1 ELSE 0))

\* a test of the suite with TEARDOWN, aborted by ASSERT_*, reported failed
C6_FatalThenTeardown ==
  /\ Reported
  /\ tr.fatal
  /\ tr.teardowns = 1
  /\ pc["parent"] = "inproc_ret"

\* the steps of one execution when the body is entered, and when ASSERT_*
\* fails in SETUP
PhasesOfTest ==
  (IF SuiteHasSetup THEN <<"setup">> ELSE <<>>) \o <<"body", "defer">>
    \o (IF SuiteHasTeardown THEN <<"teardown">> ELSE <<>>) \o <<"report">>

PhasesOfAbortedSetup ==
  <<"setup", "defer">>
    \o (IF SuiteHasTeardown THEN <<"teardown">> ELSE <<>>) \o <<"report">>

\* C7: however the body ends (return, ASSERT_* abort, intercepted exception,
\* intercepted fault), ezctest_run_test goes on with the cleanup stack, then
\* TEARDOWN, then the result line; SETUP and TEARDOWN of a suite that has
\* them are each called once per execution.
C7_CleanupThenTeardownThenReport ==
  rt.test # 0 =>
    /\ IsPrefix(tr.phases, PhasesOfTest) \/ IsPrefix(tr.phases, PhasesOfAbortedSetup)
    /\ (pc["parent"] = "guard_exit" => Last(tr.phases) \in {"setup", "body"})
    /\ (Reported =>
          /\ tr.phases \in {PhasesOfTest, PhasesOfAbortedSetup}
          /\ tr.setups = (IF SuiteHasSetup THEN 1 ELSE 0)
          /\ tr.teardowns = (IF SuiteHasTeardown THEN 1 ELSE 0))

\* a body ended by an intercepted exception or fault, in a suite with
\* fixtures: all five steps in order
C7_InterceptedThenAllSteps ==
  /\ Reported
  /\ tr.intercepted
  /\ tr.phases = <<"setup", "body", "defer", "teardown", "report">>
  /\ tr.setups = 1
  /\ tr.teardowns = 1

\* C8: an execution is reported failed exactly when, during it, an
\* assertion failed, ASSERT_* aborted the body, or an exception or fault
\* was intercepted; what earlier tests recorded does not count.
C8_FailedIffFailureInThisExecution ==
  Reported =>
    ((tr.classified = "failed") <=> (tr.asserted \/ tr.fatal \/ tr.intercepted))

\* a test reported passed after an earlier test of the run failed
C8_PassedAfterEarlierFailure ==
  /\ Reported
  /\ tr.classified = "passed"
  /\ g["parent"].result.failed_tests = 1
  /\ g["parent"].result.failed_assertions >= 1
  /\ g["parent"].registry[1].failed = 1

(***************************************************************************)
(* Properties of the run under process isolation.                          *)
(***************************************************************************)

\* C9: under isolation a child that ends abnormally never keeps later tests
\* from running: the parent does not die over it, a finished run has
\* dispatched every scheduled test, and when the first of two children dies
\* and the second passes the run ends with 1 failed, 1 passed, 2 in total.
C9_AbnormalChildNeverStopsTheRun ==
  hist.isolation =>
    /\ (hist.created /\ hist.abnormal) => pc["parent"] # "crashed"
    /\ pc["parent"] = "done" =>
         /\ Len(hist.dispatched) = config.repeat * loop.enabled_count
         /\ (config.repeat = 1 /\ hist.children = <<"abnormal", "exit0">>) =>
              /\ g["parent"].result.failed_tests = 1
              /\ g["parent"].result.passed_tests = 1
              /\ g["parent"].result.total_tests = 2

\* the parent dies running a test in-process whose child had already died
C9_ParentDiesAfterChildDied ==
  /\ hist.isolation
  /\ hist.created
  /\ hist.abnormal
  /\ pc["parent"] = "crashed"

\* C10: when a child that was created ends with a status other than 0 and
\* 1, the parent never runs the test in-process as after a failed spawn; it
\* takes the abnormal-termination path, prints the failure line itself,
\* and sets the failed flag of the test.
C10_AbnormalStatusTakesAbnormalPath ==
  (hist.created /\ hist.abnormal) =>
    /\ pc["parent"] # "fallback_ret"
    /\ rt.ret_to # "fallback_ret"
    /\ (pc["parent"] = "loop" /\ hist.paths # <<>>) =>
         /\ Last(hist.paths) = "abnormal"
         /\ g["parent"].registry[loop.i - 1].failed = 1
         /\ Len(out) >= 2
         /\ SubSeq(out, Len(out) - 1, Len(out)) = <<"ABNORMAL", "FAILED">>

\* the exit code 0xC0000005 of a child, negative as an int, sends the
\* parent down the spawn-failure path
C10_AccessViolationTakenForSpawnFailure ==
  /\ hist.created
  /\ hist.abnormal
  /\ env.platform = "windows"
  /\ loop.child_exit_code = ToInt32(EXCEPTION_ACCESS_VIOLATION)
  /\ hist.paths # <<>>
  /\ Last(hist.paths) = "fallback"

\* an assertion failed or a condition was intercepted in the execution in
\* progress
FailedHere == tr.asserted \/ tr.intercepted

\* C11: when the child of a test cannot be created, the parent runs the
\* test in-process; ezctest_run_test counts it passed or failed by what
\* happened in that execution, and the failed flag of the test is set
\* exactly when it failed.
C11_SpawnFailureRunsInProcess ==
  [][ /\ (pc["parent"] = "classify" /\ ~hist.created) =>
           /\ pc'["parent"] = "run_test"
           /\ rt'.test = loop.i
           /\ rt'.ret_to = "fallback_ret"
           /\ g' = g
      /\ (pc["parent"] = "report" /\ rt.ret_to = "fallback_ret" /\ ~hist.created) =>
           /\ g'["parent"].result.passed_tests =
                g["parent"].result.passed_tests + (IF FailedHere THEN 0 ELSE 1)
           /\ g'["parent"].result.failed_tests =
                g["parent"].result.failed_tests + (IF FailedHere THEN 1 ELSE 0)
      /\ (pc["parent"] = "fallback_ret" /\ ~hist.created) =>
           /\ g'["parent"].registry[loop.i].failed = (IF FailedHere THEN 1 ELSE 0)
           /\ g'["parent"].result = g["parent"].result
    ]_vars

\* a test that passed in-process after its spawn had failed
C11_PassedAfterSpawnFailure ==
  /\ pc["parent"] = "fallback_ret"
  /\ ~hist.created
  /\ hist.isolation
  /\ tr.classified = "passed"
  /\ g["parent"].result.passed_tests >= 1
  /\ g["parent"].result.failed_tests = 0

\* the test the child is executing, the test the parent announced for it
ChildTest == g["child"].registry[rt.test]

AnnouncedTest == g["parent"].registry[loop.i]

ChildInTest == pc["child"] \notin {"none", "start", "terminated"} /\ rt.test # 0

\* C12: under isolation the test a child executes for worker ordinal k is
\* the test the parent announced and records the result for at ordinal k,
\* for every filter and configuration, shuffled runs included.
C12_ChildRunsAnnouncedTest ==
  ChildInTest =>
    /\ ChildTest.suite_name = AnnouncedTest.suite_name
    /\ ChildTest.test_name = AnnouncedTest.test_name
    /\ ChildTest.test_func = AnnouncedTest.test_func

\* a shuffled run on Windows: the parent announced B.t first, the child
\* started with ordinal 0 executes A.s
C12_ChildRunsOtherTest ==
  /\ ChildInTest
  /\ env.platform = "windows"
  /\ config.shuffle = 1
  /\ loop.test_count = 0
  /\ AnnouncedTest.test_func = 2
  /\ ChildTest.test_func = 1

\* the registered tests that are enabled and match the filter of the run
MatchingTests ==
  {k \in 1..Len(registration) :
     ezctest_matches_filter(registration[k].suite_name,
                            registration[k].test_name, config.filter) = 1}

\* a run that found tests and took its isolation decision
Decided == g["parent"].worker_index < 0 /\ loop.enabled_count > 0

\* C13: an explicit no_exec decides isolation whatever the number of tests
\* and whether or not a debugger is attached (0 turns it on, 1 turns it
\* off); with no_exec = -1 isolation is on exactly when more than one
\* enabled matching test exists and no debugger is attached.
C13_IsolationDecision ==
  Decided =>
    /\ loop.enabled_count = Cardinality(MatchingTests)
    /\ config.no_exec = 0 => loop.use_process_isolation = 1
    /\ config.no_exec = 1 => loop.use_process_isolation = 0
    /\ config.no_exec = -1 =>
         (loop.use_process_isolation = 1 <=>
            (Cardinality(MatchingTests) > 1 /\ ~env.debugger))

\* isolation forced on for a single matching test under a debugger: a
\* child was created
C13_ForcedOnUnderDebugger ==
  /\ Decided
  /\ env.debugger
  /\ config.no_exec = 0
  /\ Cardinality(MatchingTests) = 1
  /\ loop.use_process_isolation = 1
  /\ hist.created

\* the matching tests in registration order, by test function
ExpectedPass ==
  LET m == SelectSeq(registration,
                     LAMBDA t : ezctest_matches_filter(t.suite_name, t.test_name,
                                                       config.filter) = 1)
  IN [k \in 1..Len(m) |-> m[k].test_func]

\* loop.repeat passes of the run are complete
PassComplete ==
  Decided /\ pc["parent"] \in {"pass_begin", "done"} /\ loop.repeat >= 1

\* C14: without shuffle every enabled matching test is executed exactly once
\* in every pass, in registration order, so exactly N times in a run of N
\* passes, and total_tests ends at N times the number of matching tests.
C14_EveryTestOncePerPass ==
  (PassComplete /\ config.shuffle = 0) =>
    /\ hist.executed = ExpectedPass
    /\ g["parent"].result.total_tests = loop.repeat * Len(ExpectedPass)

\* a complete pass on Windows in which A.s was executed twice: by a child
\* that ended with an access violation, then in-process
C14_ExecutedTwiceInOnePass ==
  /\ PassComplete
  /\ pc["parent"] = "done"
  /\ config.shuffle = 0
  /\ config.repeat = 1
  /\ env.platform = "windows"
  /\ hist.executed = <<1, 1, 2>>
  /\ g["parent"].result.total_tests = 2

\* the matching tests in the order of the parent's registry, by test function
RegistryOrder ==
  LET m == SelectSeq(g["parent"].registry, LAMBDA t : Matches(t, config.filter))
  IN [k \in 1..Len(m) |-> m[k].test_func]

\* the tests the parent dispatched in a pass, in order
DispatchedIn(pass) ==
  LET d == SelectSeq(hist.dispatched, LAMBDA e : e[1] = pass)
  IN [k \in 1..Len(d) |-> d[k][2]]

\* the parent's registry holds the registered tests, each once
RegistryIsPermutation ==
  LET reg == g["parent"].registry IN
  /\ Len(reg) = Len(registration)
  /\ \E f \in [1..Len(reg) -> 1..Len(reg)] :
       /\ \A a, b \in 1..Len(reg) : f[a] = f[b] => a = b
       /\ \A k \in 1..Len(reg) :
            /\ reg[k].suite_name = registration[f[k]].suite_name
            /\ reg[k].test_name = registration[f[k]].test_name
            /\ reg[k].test_func = registration[f[k]].test_func

\* C15: with shuffle on the registry is permuted once, before the first pass:
\* it holds exactly the registered tests, and the tests are executed in the
\* permuted order in the first pass and in every later pass of the run.
C15_ShuffledOnceThenSameOrder ==
  (Decided /\ config.shuffle = 1) =>
    /\ RegistryIsPermutation
    /\ PassComplete =>
         /\ hist.executed = RegistryOrder
         /\ \A pass \in 0..(loop.repeat - 1) : DispatchedIn(pass) = RegistryOrder

\* a shuffled run of two passes on Windows: the parent went through B.t,
\* A.s in both passes, the children executed A.s, B.t
C15_ExecutedInRegistrationOrder ==
  /\ PassComplete
  /\ pc["parent"] = "done"
  /\ config.shuffle = 1
  /\ config.repeat = 2
  /\ env.platform = "windows"
  /\ RegistryOrder = <<2, 1>>
  /\ DispatchedIn(0) = <<2, 1>>
  /\ DispatchedIn(1) = <<2, 1>>
  /\ hist.executed = <<1, 2>>

\* ezctest_run_all_tests returned from a run (not a worker, not a listing)
RunReturned ==
  /\ pc["parent"] = "done"
  /\ g["parent"].worker_index < 0
  /\ config.list_tests = 0

\* C16: a run returns 0 exactly when every execution of a test in it
\* passed, in every pass, and 1 exactly when at least one execution failed;
\* a run in which no test matches returns 0.
C16_ExitCodeTellsFailure ==
  RunReturned =>
    /\ retcode \in {<<0>>, <<1>>}
    /\ retcode = <<0>> <=> ~hist.failed_any
    /\ retcode = <<1>> <=> hist.failed_any
    /\ Cardinality(MatchingTests) = 0 => retcode = <<0>>

\* a run on Windows returned 0 although the child of a test was killed by
\* an access violation
C16_ZeroAfterKilledChild ==
  /\ RunReturned
  /\ env.platform = "windows"
  /\ retcode = <<0>>
  /\ hist.failed_any
  /\ hist.abnormal
  /\ g["parent"].result.failed_tests = 0

\* the lines of the summary: the counts of tests, the assertion totals, the
\* marker "Assertions: N/A" for totals that are not available
Printed(line) == \E k \in 1..Len(out) : out[k] = line

\* C17: the summary of a run that used isolation reports the counts of
\* tests, holds the marker that assertion totals are unavailable, and
\* prints no assertion totals.
C17_IsolatedSummaryMarksAssertions ==
  (RunReturned /\ Decided /\ loop.use_process_isolation # 0) =>
    /\ Printed("TOTAL")
    /\ Printed("PASSED")
    /\ Printed("ASSERTIONS_NA")
    /\ ~Printed("ASSERTIONS")

\* the summary of an isolated run: counts of tests, nothing on assertions
C17_IsolatedSummaryWithoutMarker ==
  /\ RunReturned
  /\ Decided
  /\ loop.use_process_isolation = 1
  /\ hist.created
  /\ Printed("TOTAL")
  /\ Printed("PASSED")
  /\ ~Printed("ASSERTIONS_NA")
  /\ ~Printed("ASSERTIONS")

\* C18: the statistics are reset at the start of every run: the counts and
\* the exit code of a run started in a process that ran before are those of
\* the tests this run executed (total_tests is repeat times the number of
\* matching tests, and the run returns 1 only if one of its tests failed).
C18_EveryRunCountsItsOwnTests ==
  (RunReturned /\ Decided) =>
    LET r == g["parent"].result IN
    /\ r.total_tests = config.repeat * Cardinality(MatchingTests)
    /\ r.passed_tests + r.failed_tests = r.total_tests
    /\ retcode = <<1>> <=> hist.failed_any

\* a second call of ezctest_run_all_tests in which every test passed
\* returned 1 and counted the tests of the first run
C18_PassingRerunReturnsOne ==
  /\ RunReturned
  /\ Decided
  /\ hist.run = 2
  /\ env.platform = "linux"
  /\ ~hist.failed_any
  /\ retcode = <<1>>
  /\ g["parent"].result.total_tests > config.repeat * Cardinality(MatchingTests)

\* the tests whose failed flag is set, the tests the summary lists
Flagged ==
  {g["parent"].registry[k].test_func : k \in {j \in 1..Len(g["parent"].registry) :
                                               g["parent"].registry[j].failed # 0}}

Listed ==
  {registration[k].test_func : k \in {j \in 1..Len(registration) :
                                        Printed(ToString(registration[j].test_func))}}

\* C19: the failed flags are cleared at the start of each pass, so at the
\* end of a run the flag of a test is set exactly if an execution of the
\* test failed in the final pass, whatever the path of the failure, and
\* the summary lists exactly those tests.
C19_FlagsTellFinalPassFailures ==
  (RunReturned /\ Decided) =>
    /\ Flagged = hist.failures
    /\ Listed = hist.failures

\* at the end of a run on Windows no flag is set and nothing is listed,
\* although the child of a test was killed in the final pass
C19_KilledChildNotFlagged ==
  /\ RunReturned
  /\ Decided
  /\ env.platform = "windows"
  /\ config.shuffle = 0
  /\ hist.failures # {}
  /\ Flagged = {}
  /\ Listed = {}

\* the tests the run dispatched whose result is not yet in the counters
Outstanding ==
  LET r == g["parent"].result IN
  r.total_tests - (r.passed_tests + r.failed_tests)

\* C20: at most one test is executing: while a child exists the parent
\* waits for it, neither spawning another child nor running a test itself,
\* and when the parent starts the next test the result of every earlier
\* test is recorded.
C20_OneTestAtATime ==
  /\ pc["child"] # "none" => pc["parent"] = "wait_child"
  /\ Decided =>
       /\ Outstanding \in {0, 1}
       /\ pc["parent"] \in {"loop", "pass_begin", "done"} => Outstanding = 0
       /\ pc["parent"] \in {"exec_child", "wait_child", "classify"} => Outstanding = 1

\* the child of the second test executes its body, the parent waits, the
\* result of the first test is recorded
C20_SecondChildWhileParentWaits ==
  /\ Decided
  /\ pc["child"] = "user"
  /\ pc["parent"] = "wait_child"
  /\ loop.test_count = 1
  /\ g["parent"].result.total_tests = 2
  /\ g["parent"].result.passed_tests + g["parent"].result.failed_tests = 1

\* a user function of the child, of the parent, does not return
ChildHung == pc["child"] = "hung"

ParentHung == pc["parent"] = "hung"

\* the run returned after it dispatched every scheduled test
RunComplete ==
  /\ pc["parent"] = "done"
  /\ Decided =>
       g["parent"].result.total_tests = config.repeat * Cardinality(MatchingTests)

\* C21: the wait for a child has no timeout.  When every user function and
\* every child terminate, the run completes, all scheduled tests dispatched
\* (unless the process running it is killed); when a child never
\* terminates, the parent stays in its wait: it starts no other test and
\* the run never completes.
C21_RunCompletesUnlessChildHangs ==
  /\ <>(RunComplete \/ pc["parent"] = "crashed" \/ ParentHung \/ ChildHung)
  /\ [](ChildHung => [](ChildHung /\ pc["parent"] = "wait_child"))
  /\ [][ChildHung => hist'.dispatched = hist.dispatched]_vars

\* the child of the first of two tests hangs in the test body, the parent
\* waits
C21_ParentWaitsForHungChild ==
  /\ ChildHung
  /\ pc["parent"] = "wait_child"
  /\ rt.fn = "body"
  /\ loop.test_count = 0
  /\ loop.enabled_count = 2
  /\ g["parent"].result.total_tests = 1

\* the entries of the fixture table for a suite
BindingsOf(suite_name) ==
  {k \in 1..Len(fixtures) : fixtures[k].suite_name = suite_name}

\* C22: a setup and a teardown bound for a suite in separate calls, in
\* either order, leave exactly one entry for the suite, with both functions
\* as last bound: binding one never clears the other, binding again
\* replaces only the function bound, and no suite has two entries.
C22_OneBindingPerSuite ==
  \A s \in FixtureSuites :
    /\ Cardinality(BindingsOf(s)) <= 1
    /\ (hist.setup[s] # 0 \/ hist.teardown[s] # 0) =>
         /\ Cardinality(BindingsOf(s)) = 1
         /\ \A k \in BindingsOf(s) :
              /\ fixtures[k].setup = hist.setup[s]
              /\ fixtures[k].teardown = hist.teardown[s]
    /\ (hist.setup[s] = 0 /\ hist.teardown[s] = 0) => BindingsOf(s) = {}

\* suite B: teardown 1 bound first, then setup 2, then teardown 2 bound
\* again; one entry, behind the entry of another suite
C22_TeardownThenSetupThenRebind ==
  /\ call = [fn |-> "ezctest_register_teardown", suite_name |-> <<"B">>, func |-> 2]
  /\ ret = <<1>>
  /\ Len(fixtures) = 2
  /\ fixtures[2] = [suite_name |-> <<"B">>, setup |-> 2, teardown |-> 2]
  /\ fixtures[1].suite_name = <<"A">>

\* a process started with --ezctest_worker=k, and the test of ordinal k
WorkerProcess == g["parent"].worker_index >= 0

HasTarget == config.worker < Len(ExpectedPass)

Target == ExpectedPass[config.worker + 1]

\* C23: a process in worker mode with ordinal k executes the k-th (from 0)
\* enabled matching test in registry order and no other test, neither lists
\* nor runs the tests, and returns 0 if that test passed, 1 if it failed.
C23_WorkerRunsOnlyItsTest ==
  WorkerProcess =>
    /\ hist.dispatched = <<>>
    /\ loop = NoLoop
    /\ ~Printed("LIST") /\ ~Printed("TOTAL") /\ ~Printed("NO_TESTS")
    /\ hist.executed # <<>> => (HasTarget /\ hist.executed = <<Target>>)
    /\ (pc["parent"] = "done" /\ HasTarget) =>
         /\ hist.executed = <<Target>>
         /\ retcode = <<IF hist.failed_any THEN 1 ELSE 0>>

\* the worker of ordinal 1, started with --ezctest_list_tests as well,
\* executed B.t, which passed, and returned 0
C23_SecondTestPassedInWorker ==
  /\ WorkerProcess
  /\ pc["parent"] = "done"
  /\ config.worker = 1
  /\ config.list_tests = 1
  /\ config.filter = NullStr
  /\ hist.executed = <<2>>
  /\ tr.classified = "passed"
  /\ retcode = <<0>>

\* C24: the exit code of a worker tells pass, contained failure and "not a
\* normal child" apart: for every ordinal it is 0 only when the target test
\* ran and passed and 1 only when the target test ran and failed.
C24_WorkerExitCodeUnambiguous ==
  (WorkerProcess /\ pc["parent"] = "done") =>
    /\ retcode = <<0>> =>
         (HasTarget /\ hist.executed = <<Target>> /\ tr.classified = "passed")
    /\ retcode = <<1>> =>
         (HasTarget /\ hist.executed = <<Target>> /\ tr.classified = "failed")

\* the worker of ordinal 2 of a program with two tests returned 1 and
\* executed no test
C24_OneWithoutTest ==
  /\ WorkerProcess
  /\ pc["parent"] = "done"
  /\ config.worker = 2
  /\ config.filter = NullStr
  /\ ~HasTarget
  /\ hist.executed = <<>>
  /\ tr.classified = "none"
  /\ retcode = <<1>>

\* the result lines ([  OK  ], [ FAILED ]) printed since the last dispatch
RECURSIVE ResultLines(_)
ResultLines(lines) ==
  IF lines = <<>> THEN 0
  ELSE (IF Head(lines) \in {"OK", "FAILED"} THEN 1 ELSE 0) + ResultLines(Tail(lines))

\* the parent is between two tests of an isolated pass
BetweenChildren ==
  Decided /\ loop.use_process_isolation # 0 /\ pc["parent"] = "loop"

\* C25: the parent takes exactly one of the four paths for every child; on
\* the paths of exit code 0 and exit code 1 it prints no result line, so
\* exactly one result line, the child's, is printed for the execution.
C25_OnePathOneResultLine ==
  /\ (Decided /\ loop.use_process_isolation # 0) =>
       /\ Len(hist.paths) \in {loop.test_count, loop.test_count + 1}
       /\ Len(hist.children) <= Len(hist.paths) + 1
       /\ \A k \in 1..Len(hist.paths) :
            hist.paths[k] \in {"success", "failure", "fallback", "abnormal"}
  /\ BetweenChildren =>
       /\ Len(hist.paths) = loop.test_count
       /\ (hist.paths # <<>> /\ Last(hist.paths) \in {"success", "failure"}) =>
            /\ ResultLines(out) = 1
            /\ Last(out) = (IF Last(hist.paths) = "success" THEN "OK" ELSE "FAILED")

\* the child of the second test exited 1: the only result line is the
\* FAILED of the child
C25_FailureLineOfChildOnly ==
  /\ BetweenChildren
  /\ loop.test_count = 2
  /\ hist.paths = <<"success", "failure">>
  /\ hist.children = <<"exit0", "exit1">>
  /\ out = <<"RUN", "FAILED">>

\* C26: a test whose body raises an exception nothing in it catches is
\* reported failed, the cleanups it pushed are invoked last first, TEARDOWN
\* of its suite is called, and the process goes on: from the throw to the
\* end of the guard, and from the end of the test to the test loop.
C26_ThrowingBodyIsContained ==
  /\ [](tr.thrown =>
          /\ Last(tr.phases) = "body" => pc["parent"] = "guard_exit"
          /\ IsPrefix(InvokedBodyCleanups, Reverse(BodyCleanups))
          /\ Reported =>
               /\ tr.classified = "failed"
               /\ InvokedBodyCleanups = Reverse(BodyCleanups)
               /\ tr.teardowns = (IF SuiteHasTeardown THEN 1 ELSE 0)
               /\ pc["parent"] = "inproc_ret")
  /\ [][(tr.thrown /\ Reported) =>
          /\ pc'["parent"] = "loop"
          /\ loop'.i = loop.i + 1
          /\ g'["parent"].registry[loop.i].failed = 1]_vars

\* the body of A.s pushed two cleanups and threw; both were invoked, last
\* first, TEARDOWN was called, the test was reported failed
C26_ThrownAfterTwoCleanups ==
  /\ Reported
  /\ tr.thrown
  /\ rt.test = 1
  /\ Len(BodyCleanups) = 2
  /\ InvokedBodyCleanups = <<BodyCleanups[2], BodyCleanups[1]>>
  /\ tr.teardowns = 1
  /\ tr.classified = "failed"

\* C27: a failing EXPECT_* adds one to total_assertions and one to
\* failed_assertions, marks the test failed, and the function goes on with
\* the statement after it; the test is reported failed whatever the later
\* assertions do.
C27_ExpectFailureRecordedBodyContinues ==
  /\ [][tr'.expects = tr.expects + 1 =>
          LET r == g["parent"].result
              q == g'["parent"].result
          IN /\ q.total_assertions = r.total_assertions + 1
             /\ q.failed_assertions = r.failed_assertions + 1
             /\ q.total_tests = r.total_tests
             /\ q.passed_tests = r.passed_tests
             /\ q.failed_tests = r.failed_tests
             /\ g'["parent"].current_assertion_failed # 0
             /\ pc' = pc
             /\ pc["parent"] = "user"
             /\ rt'.fn = rt.fn
             /\ rt'.steps = rt.steps + 1]_vars
  /\ []((Reported /\ tr.expects > 0) => tr.classified = "failed")

\* a body in which EXPECT_* failed once and two assertions after it held:
\* three assertions counted, one failed, the test reported failed
C27_FailedThoughLaterAssertionsHeld ==
  /\ Reported
  /\ tr.expects = 1
  /\ tr.after_expect = 2
  /\ ~tr.fatal /\ ~tr.intercepted
  /\ hist.executed = <<1>>
  /\ g["parent"].result.total_assertions = 3
  /\ g["parent"].result.failed_assertions = 1
  /\ tr.classified = "failed"

\* C28: every invocation of ezctest_run_test goes through the same steps in
\* the same order whatever the outcome of an earlier step: flags reset,
\* cleanup stack cleared, fixture looked up, SETUP if bound, the body, the
\* cleanup stack, TEARDOWN if bound, the classification; the body is
\* invoked whatever happened in SETUP.
C28_AllStepsInEveryInvocation ==
  rt.test # 0 =>
    /\ pc["parent"] = "guard" =>
         /\ g["parent"].current_failed = 0
         /\ g["parent"].current_assertion_failed = 0
         /\ g["parent"].defer_stack = <<>>
         /\ rt.fixture = find_fixture(g["parent"].registry[rt.test].suite_name)
    /\ IsPrefix(tr.phases, PhasesOfTest)
    /\ Reported => tr.phases = PhasesOfTest

\* ASSERT_* failed in SETUP of suite A: the cleanup stack, TEARDOWN and the
\* classification followed, the body of A.s was never invoked
C28_BodySkippedAfterSetupAssert ==
  /\ Reported
  /\ rt.test = 1
  /\ tr.asserted
  /\ ~tr.fatal
  /\ tr.phases = <<"setup", "defer", "teardown", "report">>
  /\ tr.classified = "failed"

\* C29: g_ezctest_count never exceeds EZCTEST_MAX_TESTS; ezctest_register on
\* a full registry returns 0 and leaves the registry and the count as they
\* were, on a registry with room it returns 1 and appends the test; the
\* tests registered earlier stay in their places, and a pass executes them,
\* and only them, in the order of their registration.
C29_FullRegistryRejects ==
  /\ [](Len(g["parent"].registry) <= MaxTests)
  /\ [][pc["parent"] = "constructors" /\ pc'["parent"] = "constructors" =>
          LET reg == g["parent"].registry IN
          /\ call'.fn = "ezctest_register"
          /\ IF Len(reg) >= MaxTests
               THEN ret' = <<0>> /\ g' = g
               ELSE /\ ret' = <<1>>
                    /\ Len(g'["parent"].registry) = Len(reg) + 1
                    /\ Last(g'["parent"].registry).test_func = call'.test_func
                    /\ Last(g'["parent"].registry).enabled = 1]_vars
  /\ [][\A k \in 1..Len(g["parent"].registry) :
          /\ k <= Len(g'["parent"].registry)
          /\ g'["parent"].registry[k].suite_name = g["parent"].registry[k].suite_name
          /\ g'["parent"].registry[k].test_name = g["parent"].registry[k].test_name
          /\ g'["parent"].registry[k].test_func = g["parent"].registry[k].test_func
          /\ g'["parent"].registry[k].enabled = g["parent"].registry[k].enabled]_vars
  /\ [](PassComplete =>
          hist.executed = [k \in 1..Len(registration) |-> registration[k].test_func])

\* C.u and B.t were registered, the registration of A.s was refused, and the
\* run executed C.u and then B.t
C29_RefusedThenRunInOrder ==
  /\ pc["parent"] = "done"
  /\ call.fn = "ezctest_register"
  /\ call.test_func = 1
  /\ ret = <<0>>
  /\ Len(g["parent"].registry) = MaxTests
  /\ hist.executed = <<3, 2>>
  /\ g["parent"].result.total_tests = 2

\* C30: the cleanup stack never holds more than EZCTEST_MAX_DEFER_CALLBACKS
\* entries; a DEFER on a full stack leaves the stack as it was, changes
\* neither the failure flags nor the counters, and the function that
\* called it goes on; the cleanups SETUP and the body pushed are still
\* invoked last first, each once, and a test that did nothing else wrong
\* passes.
C30_FullCleanupStackRefuses ==
  /\ [](\A p \in Procs : Len(g[p].defer_stack) <= EZCTEST_MAX_DEFER_CALLBACKS)
  /\ [][tr'.refused = tr.refused + 1 =>
          /\ Len(g["parent"].defer_stack) = EZCTEST_MAX_DEFER_CALLBACKS
          /\ g' = g
          /\ pc' = pc
          /\ rt'.fn = rt.fn /\ rt'.steps = rt.steps + 1
          /\ tr'.pushed = tr.pushed]_vars
  /\ []((Reported /\ tr.refused > 0) =>
          /\ LET early == SelectSeq(tr.pushed, LAMBDA e : e[2] \in {"setup", "body"})
                 ids == [i \in 1..Len(early) |-> early[i][1]]
             IN SelectSeq(tr.invoked, LAMBDA c : Contains(ids, c)) = Reverse(ids)
          /\ (~tr.asserted /\ ~tr.intercepted => tr.classified = "passed"))

\* the third DEFER of the body of B.t was refused, the two cleanups pushed
\* before it were invoked last first, and the test passed
C30_ThirdDeferRefusedTestPassed ==
  /\ Reported
  /\ rt.test = 2
  /\ tr.refused = 1
  /\ Len(BodyCleanups) = EZCTEST_MAX_DEFER_CALLBACKS
  /\ tr.invoked = <<2, 1>>
  /\ tr.classified = "passed"
  /\ g["parent"].result.failed_tests = 0

\* C31: with the list-only flag and no worker ordinal the process prints
\* the enabled tests the filter accepts, in registry order, and returns 0;
\* no SETUP, body, cleanup or TEARDOWN is executed, no child is created,
\* and the statistics and the failed flags stay as they were at the start.
C31_ListOnlyExecutesNothing ==
  (config.list_tests = 1 /\ config.worker < 0) =>
    /\ pc["parent"] \in {"start", "done"}
    /\ pc["child"] = "none"
    /\ tr = NoTrace
    /\ rt = NoRunTest
    /\ hist = NoHist
    /\ child_status = NoStatus
    /\ g = [p \in Procs |-> FreshGlobals(-1)]
    /\ pc["parent"] = "done" =>
         /\ retcode = <<0>>
         /\ out = <<"LIST">> \o [k \in 1..Len(ExpectedPass) |-> ToString(ExpectedPass[k])]

\* the listing of the filter "-A.*:*": B.t alone, A.s is left out
C31_ListedWithoutSuiteA ==
  /\ config.list_tests = 1
  /\ config.worker < 0
  /\ config.filter = <<"-", "A", ".", "*", ":", "*">>
  /\ pc["parent"] = "done"
  /\ out = <<"LIST", "2">>
  /\ retcode = <<0>>

\* C32: the cleanup stack is empty when the guard of a test is entered and
\* when its SETUP, or its body if it has no SETUP, begins, and empty again
\* when the cleanup step has completed; every cleanup invoked during an
\* execution was pushed during that execution, and is invoked once.
C32_CleanupStackPerExecution ==
  LET stack == g["parent"].defer_stack IN
  /\ pc["parent"] = "guard" => stack = <<>>
  /\ (pc["parent"] = "user" /\ Len(tr.phases) = 1 /\ rt.steps = 0) => stack = <<>>
  /\ (pc["parent"] = "user" /\ rt.fn = "teardown" /\ rt.steps = 0) => stack = <<>>
  /\ (pc["parent"] = "report" /\ ~Contains(tr.phases, "teardown")) => stack = <<>>
  /\ \A i \in 1..Len(tr.invoked) :
       /\ \E j \in 1..Len(tr.pushed) : tr.pushed[j][1] = tr.invoked[i]
       /\ \A k \in 1..Len(tr.invoked) : tr.invoked[k] = tr.invoked[i] => k = i

\* B.t, executed after A.s, invoked the one cleanup its own body pushed and
\* nothing else
C32_SecondTestInvokesItsOwnCleanup ==
  /\ Reported
  /\ rt.test = 2
  /\ hist.executed = <<1, 2>>
  /\ tr.pushed = << <<1, "body">> >>
  /\ tr.invoked = <<1>>
  /\ g["parent"].defer_stack = <<>>
  /\ g["parent"].result.passed_tests = 1

\* the process that runs the loop over the tests is between two tests
BetweenTests ==
  pc["parent"] \in {"start", "pass_begin", "loop", "inproc_ret", "fallback_ret", "done"}

\* C33: in the process that runs the loop, total_tests counts the tests
\* dispatched; between two tests total_tests = passed_tests + failed_tests,
\* and while a test is in progress the sum is total_tests or one less: every
\* completed test has added one to exactly one of the two counters.
C33_TotalIsPassedPlusFailed ==
  LET r == g["parent"].result IN
  g["parent"].worker_index < 0 =>
    /\ r.total_tests = Len(hist.dispatched)
    /\ r.passed_tests >= 0 /\ r.failed_tests >= 0
    /\ r.passed_tests + r.failed_tests \in {r.total_tests - 1, r.total_tests}
    /\ BetweenTests => r.total_tests = r.passed_tests + r.failed_tests

\* a run under isolation: the child of A.s passed, the child of B.t was
\* killed; two tests, one passed, one failed
C33_OnePassedOneKilled ==
  /\ pc["parent"] = "done"
  /\ hist.paths = <<"success", "abnormal">>
  /\ g["parent"].result.total_tests = 2
  /\ g["parent"].result.passed_tests = 1
  /\ g["parent"].result.failed_tests = 1

\* C34: within one pass no test is executed twice, counting the executions
\* of the parent and of its children together; the parent executes a test
\* in-process after the spawn-failure line only if no child was created
\* for the test.
C34_NoSecondExecutionByFallback ==
  /\ \A i, j \in 1..Len(hist.executed) :
       hist.executed[i] = hist.executed[j] => i = j
  /\ (pc["parent"] = "run_test" /\ rt.ret_to = "fallback_ret") => ~hist.created

\* Windows: the child of A.s was created, executed A.s and ended with an
\* access violation; the parent has executed A.s again in-process
C34_ChildRanThenFallbackRan ==
  /\ env.platform = "windows"
  /\ pc["parent"] = "fallback_ret"
  /\ hist.created
  /\ hist.children = <<"abnormal">>
  /\ hist.paths = <<"fallback">>
  /\ hist.executed = <<1, 1>>
  /\ Reported

\* C35: a summary that announces failed tests "listed below" lists at least
\* one test below the announcement, whatever the number of passes.
C35_AnnouncedFailuresAreListed ==
  (RunReturned /\ Printed("FAILED_LISTED_BELOW")) => Listed # {}

\* two passes in-process: a test failed in the first pass, no test failed
\* in the second; the summary announces one failed test and lists none
C35_AnnouncedButNoneListed ==
  /\ RunReturned
  /\ config.repeat = 2
  /\ loop.use_process_isolation = 0
  /\ g["parent"].result.failed_tests = 1
  /\ g["parent"].result.passed_tests = 3
  /\ hist.failures = {}
  /\ Printed("FAILED_LISTED_BELOW")
  /\ Listed = {}
  /\ retcode = <<1>>

\* C36: after ASSERT_* fails in SETUP the process goes on at the end of the
\* guard: the body of the test is not executed, the cleanup stack is run
\* and TEARDOWN is called once, the test is reported failed, and control
\* returns to the loop over the tests.
C36_SetupAssertIsContained ==
  tr.setup_fatal =>
    /\ rt.exception_type = 2
    /\ ~Contains(tr.phases, "body")
    /\ IsPrefix(tr.phases, PhasesOfAbortedSetup)
    /\ (Last(tr.phases) = "setup" => pc["parent"] = "guard_exit")
    /\ tr.teardowns <= 1
    /\ Reported =>
         /\ tr.phases = PhasesOfAbortedSetup
         /\ tr.teardowns = (IF SuiteHasTeardown THEN 1 ELSE 0)
         /\ tr.classified = "failed"
         /\ g["parent"].registry[rt.test].test_func \in hist.failures
         /\ pc["parent"] = "inproc_ret"

\* ASSERT_* failed in SETUP of suite A: A.s is reported failed without its
\* body, TEARDOWN was called, and the loop is about to go on with B.t
C36_FailedInSetupThenLoopGoesOn ==
  /\ tr.setup_fatal
  /\ Reported
  /\ rt.test = 1
  /\ rt.exception_type = 2
  /\ tr.teardowns = 1
  /\ pc["parent"] = "inproc_ret"
  /\ g["parent"].result.failed_tests = 1
  /\ hist.executed = <<1>>

\* the guarded region of the test in progress: SETUP and the body, up to
\* the return of the guard
InGuardedRegion ==
  \/ pc["parent"] = "user" /\ rt.fn \in {"setup", "body"}
  \/ pc["parent"] = "guard_exit"

\* C37: has_jumped is 1 exactly in the guarded region of the test in
\* progress; no ASSERT_* jumps to a resumption point whose frame has
\* returned: one that fails in a cleanup callback or in TEARDOWN records
\* the failure and the function goes on or returns; after a transfer no
\* statement of SETUP or of the body executes, so there is at most one
\* transfer in an execution.
C37_TransferOnlyInGuardedRegion ==
  /\ [](pc["parent"] # "crashed" =>
          (g["parent"].has_jumped # 0 <=> InGuardedRegion))
  /\ [](~tr.stale)
  /\ []((pc["parent"] = "user" /\ rt.fn \in {"setup", "body"}) => rt.exception_type = 0)
  /\ [](~(tr.fatal /\ tr.setup_fatal))
  /\ [][(/\ pc["parent"] = "user"
         /\ rt.fn \in {"cleanup", "teardown"}
         /\ g'["parent"].result.failed_assertions
              = g["parent"].result.failed_assertions + 1)
          => /\ rt'.exception_type = rt.exception_type
             /\ pc'["parent"] \in {"user", "defer_execute", "report"}
             /\ g'["parent"].current_assertion_failed # 0]_vars

\* ASSERT_* failed after the guard of B.t had returned, in a cleanup
\* callback: no transfer, the test is reported failed
C37_AssertFailedInCleanup ==
  /\ Reported
  /\ rt.test = 2
  /\ rt.exception_type = 0
  /\ tr.asserted /\ tr.expects = 0
  /\ ~tr.fatal /\ ~tr.setup_fatal /\ ~tr.intercepted
  /\ tr.invoked = <<1>>
  /\ tr.classified = "failed"
  /\ g["parent"].has_jumped = 0

\* C38: when the result of a test is reported, every cleanup whose push
\* succeeded during the execution, in SETUP, in the body, in a cleanup
\* callback or in TEARDOWN, has been invoked exactly once.
C38_EveryPushedCleanupInvoked ==
  Reported =>
    \A j \in 1..Len(tr.pushed) :
      Cardinality({i \in 1..Len(tr.invoked) : tr.invoked[i] = tr.pushed[j][1]}) = 1

\* TEARDOWN of suite A pushed a cleanup after the stack had been run: A.s
\* is reported and the cleanup is still on the stack, not invoked
C38_CleanupOfTeardownNotInvoked ==
  /\ Reported
  /\ rt.test = 1
  /\ tr.pushed = << <<1, "teardown">> >>
  /\ tr.invoked = <<>>
  /\ g["parent"].defer_stack = <<1>>
  /\ tr.classified = "passed"

\* the start lines among the lines printed for the test dispatched last
StartLines == Cardinality({k \in 1..Len(out) : out[k] = "RUN"})

\* C39: under isolation one start line is printed for every test, by the
\* parent before it creates the child, on each of the four paths: a child
\* prints none, and the execution in-process after a failed spawn prints
\* no second one.
C39_OneStartLinePerTest ==
  (Decided /\ loop.use_process_isolation # 0) =>
    /\ StartLines <= 1
    /\ pc["parent"] \in {"exec_child", "wait_child", "classify"} =>
         (StartLines = 1 /\ Head(out) = "RUN")
    /\ (BetweenChildren /\ hist.paths # <<>>) => StartLines = 1

\* Linux: fork failed for A.s, the parent printed the start line, the
\* fallback line, and ezctest_run_test printed a second start line
C39_SecondStartLineAfterFailedSpawn ==
  /\ env.platform = "linux"
  /\ BetweenChildren
  /\ ~hist.created
  /\ hist.paths = <<"fallback">>
  /\ hist.executed = <<1>>
  /\ out = <<"RUN", "FALLBACK", "RUN", "OK">>

====
